---- MODULE Spec2Model ----
(***************************************************************************)
(* Model of the bond tracker: the alert system (src/alert_system.py: the   *)
(* timestamp column index, the closest-column finder, the hourly and       *)
(* month-to-date volume calculators, the Slack notifier, the time-of-day   *)
(* dispatch) and the scraper that fills the sheet (src/web_scraper.py).    *)
(*                                                                         *)
(* Representation.                                                         *)
(*  - A datetime (IST, no DST) is the number of minutes since the start of *)
(*    proleptic day 0, ToMinutes of its civil fields; a timedelta is a     *)
(*    number of minutes.                                                   *)
(*  - A header cell is a record: the characters it begins with, and the    *)
(*    fields of the first "(dddd-dd-dd dd:dd)" digit group it holds, if    *)
(*    any; the group directly follows the characters.                      *)
(*  - A sheet cell is a record of its kind and value: blank, a number, a   *)
(*    boolean, text (that reads as a number, as nan, as an infinity, or as *)
(*    none of them; text of whitespace only), a HYPERLINK formula, a URL,  *)
(*    a SUM formula.                                                       *)
(*  - None is <<>> and a present optional value v is <<v>>.                *)
(*  - A float is a record: a finite one holds its value, an integer        *)
(*    (rounding is not modelled); the others are inf, -inf and nan.        *)
(*  - The alert system and the scraper are two processes on one sheet:     *)
(*    each worksheet call and each clock read is a step of its own.        *)
(***************************************************************************)
EXTENDS Integers, Sequences, FiniteSets, TLC

VARIABLES
    headers,   \* row 1 of the worksheet
    rows,      \* the rows 2, 3, ... of the worksheet
    now,       \* datetime.now(ist_tz), in minutes
    call,      \* the operation last called and its arguments
    ret,       \* what it returned (or that it raised); NoRet while it runs
    posts,     \* the webhook POSTs performed so far, in order
    runs,      \* the number of calls of the alert path so far
    frame,     \* the local variables and position of the alert call under way
    scraper,   \* the scraper runs begun so far, each with its local variables
    ticks      \* how often the clock has advanced while a call was under way

vars == <<headers, rows, now, call, ret, posts, runs, frame, scraper, ticks>>

\* ------------------------------------------------------------------------
\* Bounds of the model
\* ------------------------------------------------------------------------
MaxHeaders == 3     \* header cells in a header row of SpecCols
MaxFindCols == 2    \* snapshot columns in a header row of SpecFind
MaxRows == 2        \* data rows of a sheet of SpecCalc
MaxRangeCols == 3   \* snapshot columns of a sheet of SpecCalc
MaxHours == 3       \* hourly intervals of a range of SpecCalc
MaxInvocations == 2 \* calls of the alert path in SpecAlerts
MaxJobs == 1        \* runs of run_scraping_job in SpecScrape
MaxRuns == 2        \* runs of run_scraping_job in SpecRuns
MaxTicks == 1       \* clock advances while a call is under way

\* ------------------------------------------------------------------------
\* Optional values
\* ------------------------------------------------------------------------
None == <<>>
Some(v) == <<v>>
IsNone(o) == o = <<>>
Val(o) == o[1]

\* the element of a one-element set; {F(x) : x \in {e}} computes e once and
\* hands its value to F, as a local variable of the code holds a value
Only(S) == CHOOSE x \in S : TRUE

\* ------------------------------------------------------------------------
\* datetime arithmetic (datetime.strptime, timedelta, date())
\* ------------------------------------------------------------------------
IsLeap(y) == (y % 4 = 0 /\ y % 100 # 0) \/ y % 400 = 0

DaysInMonth(y, m) ==
    IF m = 2 THEN (IF IsLeap(y) THEN 29 ELSE 28)
    ELSE IF m \in {4, 6, 9, 11} THEN 30 ELSE 31

DaysBeforeYear(y) ==
    (y - 1) * 365 + ((y - 1) \div 4) - ((y - 1) \div 100) + ((y - 1) \div 400)

\* the days of the year y before the first of month m
DaysBeforeMonth(y, m) ==
    <<0, 31, 59, 90, 120, 151, 181, 212, 243, 273, 304, 334>>[m]
    + (IF m > 2 /\ IsLeap(y) THEN 1 ELSE 0)

\* date.toordinal(): 0001-01-01 is day 1
ToOrdinal(y, m, d) == DaysBeforeYear(y) + DaysBeforeMonth(y, m) + d

\* a civil date and time as minutes
ToMinutes(c) == ToOrdinal(c.y, c.mo, c.d) * 1440 + c.h * 60 + c.mi

Civil(y, mo, d, h, mi) == [y |-> y, mo |-> mo, d |-> d, h |-> h, mi |-> mi]

\* the civil fields of a datetime given in minutes (the proleptic Gregorian
\* calendar, by 400-year eras counted from 0000-03-01)
FromMinutes(t) ==
    LET z   == (t \div 1440) + 305
        era == z \div 146097
        doe == z - era * 146097
        yoe == (doe - (doe \div 1460) + (doe \div 36524) - (doe \div 146096))
                   \div 365
        doy == doe - (365 * yoe + (yoe \div 4) - (yoe \div 100))
        mp  == (5 * doy + 2) \div 153
        mo  == IF mp < 10 THEN mp + 3 ELSE mp - 9
    IN  Civil(yoe + era * 400 + (IF mo <= 2 THEN 1 ELSE 0), mo,
              doy - ((153 * mp + 2) \div 5) + 1, (t % 1440) \div 60, t % 60)

\* ts.date(): the calendar day of a datetime
DateOf(t) == t \div 1440

\* strftime('%b %d %I %p'): month, day and hour survive; year and minute do not
FormatHour(t) ==
    LET c == FromMinutes(t) IN [mo |-> c.mo, d |-> c.d, h |-> c.h]

\* what datetime.strptime(s, "%Y-%m-%d %H:%M") accepts
ValidStamp(s) ==
    /\ s.y >= 1 /\ s.y <= 9999
    /\ s.mo >= 1 /\ s.mo <= 12
    /\ s.d >= 1 /\ s.d <= DaysInMonth(s.y, s.mo)
    /\ s.h >= 0 /\ s.h <= 23
    /\ s.mi >= 0 /\ s.mi <= 59

\* ------------------------------------------------------------------------
\* Header cells
\* ------------------------------------------------------------------------
NoStamp == [has |-> FALSE, y |-> 0, mo |-> 0, d |-> 0, h |-> 0, mi |-> 0]
Stamp(y, mo, d, h, mi) ==
    [has |-> TRUE, y |-> y, mo |-> mo, d |-> d, h |-> h, mi |-> mi]

\* a header cell: `word` is the sequence of characters before the digit
\* group (all its characters when it has none)
Header(word, stamp) == [word |-> word, stamp |-> stamp]
EmptyHeader == Header(<<>>, NoStamp)

\* f"Data ({timestamp_str})"
DataHeader(y, mo, d, h, mi) ==
    Header(<<"D", "a", "t", "a", " ">>, Stamp(y, mo, d, h, mi))

\* f"Hourly Change ({timestamp_str})"
HourlyChangeHeader(y, mo, d, h, mi) ==
    Header(<<"H", "o", "u", "r", "l", "y", " ", "C", "h", "a", "n", "g", "e",
             " ">>, Stamp(y, mo, d, h, mi))

\* the characters a header cell begins with: the digit group opens with "("
Leading(header) ==
    header.word \o (IF header.stamp.has THEN <<"(">> ELSE <<>>)

\* str.startswith
StartsWith(s, prefix) ==
    Len(s) >= Len(prefix) /\ SubSeq(s, 1, Len(prefix)) = prefix

\* `if header and header.startswith("Data")`
StartsWithData(header) == StartsWith(Leading(header), <<"D", "a", "t", "a">>)

\* the characters str.strip() removes, of those a string of the model can
\* hold: tab, newline, vertical tab, form feed, carriage return, the four
\* separators U+001C..U+001F, the space, U+0085, the no-break space and
\* U+1680
Whitespace ==
    {"\t", "\n", "", "\f", "\r", "", "", "", "", " ", "", " ", " "}

\* `h and h.strip()`: the cell holds a character that is not whitespace
NonBlank(header) ==
    header.stamp.has
    \/ \E i \in 1..Len(header.word) : header.word[i] \notin Whitespace

\* the result of a call that may raise
Raised == [tag |-> "raise", val |-> None]
Returned(v) == [tag |-> "ok", val |-> v]

\* parse_timestamp_from_header: None without the digit group, the datetime
\* when strptime accepts the group, and ValueError otherwise (not caught here)
parse_timestamp_from_header(header) ==
    IF ~header.stamp.has THEN Returned(None)
    ELSE IF ValidStamp(header.stamp)
         THEN Returned(Some(ToMinutes(header.stamp)))
         ELSE Raised

\* a data column (idx, header, timestamp)
Col(idx, header, ts) == [idx |-> idx, header |-> header, ts |-> ts]

\* sorted(..., key=lambda x: x[2]) is stable: x goes after every element
\* whose key is not greater
RECURSIVE InsertByTs(_, _)
InsertByTs(s, x) ==
    IF s = <<>> THEN <<x>>
    ELSE IF x.ts < Head(s).ts THEN <<x>> \o s
         ELSE <<Head(s)>> \o InsertByTs(Tail(s), x)

RECURSIVE SortByTs(_)
SortByTs(s) ==
    IF s = <<>> THEN <<>>
    ELSE InsertByTs(SortByTs(SubSeq(s, 1, Len(s) - 1)), s[Len(s)])

\* the loop of get_data_columns over headers[idx..]: the unsorted list, or
\* Raised as soon as a 'Data' header fails to parse
RECURSIVE CollectDataColumns(_, _)
CollectDataColumns(hs, idx) ==
    IF idx > Len(hs) THEN Returned(<<>>)
    ELSE IF ~StartsWithData(hs[idx]) THEN CollectDataColumns(hs, idx + 1)
    ELSE LET p == parse_timestamp_from_header(hs[idx])
         IN  IF p.tag = "raise" THEN Raised
             ELSE LET rest == CollectDataColumns(hs, idx + 1)
                  IN  IF rest.tag = "raise" THEN Raised
                      ELSE IF IsNone(p.val) THEN rest
                      ELSE Returned(<<Col(idx, hs[idx], Val(p.val))>> \o rest.val)

\* get_data_columns on the header row hs
get_data_columns(hs) ==
    LET c == CollectDataColumns(hs, 1)
    IN  IF c.tag = "raise" THEN Raised ELSE Returned(SortByTs(c.val))

\* timedelta(days=999), the initial min_time_diff
Days999 == 1438560

\* the loop of find_closest_data_column: (closest_column, min_time_diff)
\* after the columns cols[1..k]
RECURSIVE ClosestLoop(_, _, _, _)
ClosestLoop(cols, k, target_time, window_minutes) ==
    IF k = 0 THEN [closest |-> None, min_diff |-> Days999]
    ELSE LET prev == ClosestLoop(cols, k - 1, target_time, window_minutes)
             d    == cols[k].ts - target_time
             time_diff == IF d < 0 THEN -d ELSE d
         IN  IF time_diff <= window_minutes /\ time_diff < prev.min_diff
             THEN [closest |-> Some(cols[k]), min_diff |-> time_diff]
             ELSE prev

\* find_closest_data_column on the header row hs
find_closest_data_column(hs, target_time, window_minutes) ==
    LET dc == get_data_columns(hs)
    IN  IF dc.tag = "raise" THEN Raised
        ELSE Returned(ClosestLoop(dc.val, Len(dc.val), target_time,
                                  window_minutes).closest)


\* ------------------------------------------------------------------------
\* Floats
\* ------------------------------------------------------------------------
\* the float of the number n (also what the integer n counts as in float
\* arithmetic: `0 + 1.5`)
Fin(n) == [c |-> "fin", v |-> n]
\* float('inf') and float('nan'); float('-inf') is FNeg(Inf)
Inf == [c |-> "inf", v |-> 1]
NaN == [c |-> "nan", v |-> 0]

\* math.isfinite(x)
IsFinite(x) == x.c = "fin"
\* 1 for x > 0, -1 for x < 0, 0 for zero and for nan
Sign(x) ==
    IF x.c = "nan" THEN 0
    ELSE IF x.v > 0 THEN 1 ELSE IF x.v < 0 THEN -1 ELSE 0
\* -x
FNeg(x) == [x EXCEPT !.v = -@]

\* x + y, x - y and x * y on floats: nan spreads, inf - inf and inf * 0 are
\* nan
FAdd(x, y) ==
    IF x.c = "nan" \/ y.c = "nan" THEN NaN
    ELSE IF x.c = "inf" THEN (IF y.c = "inf" /\ y.v # x.v THEN NaN ELSE x)
    ELSE IF y.c = "inf" THEN y
    ELSE Fin(x.v + y.v)

FSub(x, y) == FAdd(x, FNeg(y))

FMul(x, y) ==
    IF x.c = "nan" \/ y.c = "nan" THEN NaN
    ELSE IF x.c = "fin" /\ y.c = "fin" THEN Fin(x.v * y.v)
    ELSE IF Sign(x) = 0 \/ Sign(y) = 0 THEN NaN
    ELSE [c |-> "inf", v |-> Sign(x) * Sign(y)]

\* x >= 0, x > 0 and x < 0: a comparison with nan is false
FGe0(x) == x.c # "nan" /\ x.v >= 0
FGt0(x) == Sign(x) = 1
FLt0(x) == Sign(x) = -1

\* ------------------------------------------------------------------------
\* Sheet cells
\* ------------------------------------------------------------------------
Blank == [k |-> "blank", v |-> 0]
Num(n) == [k |-> "num", v |-> n]
\* TRUE and FALSE
Bool(b) == [k |-> "bool", v |-> IF b THEN 1 ELSE 0]
\* text float() rejects ('N/A'); v tells one such text from another
Text == [k |-> "text", v |-> 0]
\* text float() reads as the number n: '12', ' 7 ', '1e3', '1_000'
NumText(n) == [k |-> "numtext", v |-> n]
\* 'nan'
NanText == [k |-> "nantext", v |-> 0]
\* 'inf', 'Infinity' (sign 1) and '-inf', '-Infinity' (sign -1)
InfText(sign) == [k |-> "inftext", v |-> sign]
\* text of whitespace only (' ')
SpaceText == [k |-> "space", v |-> 0]
\* what a formula that cannot be computed shows ('#REF!')
ErrorValue == [k |-> "error", v |-> 0]
\* the float x as an entry of diff_values: a number, a nan or an infinity
\* (the last two are values of the program only, no cell holds them)
FloatCell(x) ==
    IF x.c = "fin" THEN Num(x.v)
    ELSE IF x.c = "nan" THEN [k |-> "nannum", v |-> 0]
    ELSE [k |-> "infnum", v |-> x.v]

\* name of a homepage link without an <h4>: "Unknown Bond"
UnknownBond == 99

\* the name 'TOTAL:'
TotalName == 98

\* a bond name is a code: the code d is 'bond <d>' up to 9 and
\* 'BOND <d mod 10>' from 10 on, so that two of these names are equal
\* without regard to case when their codes agree modulo 10; the codes of
\* 'Unknown Bond' and 'TOTAL:' are the two names equal to no other.
\* Lower(name) stands for name.lower()
Lower(name) ==
    IF name \in {UnknownBond, TotalName} THEN name ELSE name % 10

\* the cells of columns A and B: a name, '=HYPERLINK("<url>", "<name>")',
\* a plain 'http...' URL
NameCell(name) == [k |-> "text", v |-> name]
LinkCell(url, name) == [k |-> "link", v |-> url * 100 + name]
UrlCell(url) == [k |-> "url", v |-> url]

\* the 'TOTAL:' label, and '=SUM(X2:X<data_end_row>)' where X is the column
\* the formula stands in
TotalLabel == NameCell(TotalName)
SumFormula(data_end_row) == [k |-> "formula", v |-> data_end_row]

\* `if x`: an empty string, the number 0 and False are falsy
Truthy(cell) ==
    ~(cell.k = "blank" \/ (cell.k \in {"num", "bool"} /\ cell.v = 0))

\* `float(x) if x else 0` and `float(x or 0)`: a falsy value gives 0; a
\* number gives itself and True gives 1.0; text gives the number, the nan or
\* the infinity it spells, and raises ValueError when it spells none
ToFloat(cell) ==
    IF ~Truthy(cell) THEN Returned(Fin(0))
    ELSE IF cell.k \in {"num", "numtext", "bool"} THEN Returned(Fin(cell.v))
    ELSE IF cell.k \in {"nantext", "nannum"} THEN Returned(NaN)
    ELSE IF cell.k \in {"inftext", "infnum"}
    THEN Returned([c |-> "inf", v |-> cell.v])
    ELSE Raised

\* ------------------------------------------------------------------------
\* The worksheet and its reads
\* ------------------------------------------------------------------------
\* a sheet: its header row (row 1) and its rows 2, 3, ...
Sheet(hs, rs) == [headers |-> hs, rows |-> rs]

\* the largest element of a set of numbers that is not empty
MaxOf(S) == CHOOSE x \in S : \A y \in S : y <= x

\* the cell at sheet row r (2 and below) and column c; blank outside the
\* stored grid
CellAt(sheet, r, c) ==
    IF r - 1 \in 1..Len(sheet.rows) /\ c \in 1..Len(sheet.rows[r - 1])
    THEN sheet.rows[r - 1][c] ELSE Blank

\* row 1 at column c
HeaderAt(sheet, c) ==
    IF c \in 1..Len(sheet.headers) THEN sheet.headers[c] ELSE EmptyHeader

\* whether the cell of sheet row r (1 and below) in column c holds anything
Filled(sheet, r, c) ==
    IF r = 1 THEN HeaderAt(sheet, c) # EmptyHeader
    ELSE CellAt(sheet, r, c).k # "blank"

\* the cell at row r and column c under
\* value_render_option='UNFORMATTED_VALUE': a '=SUM(X2:X<n>)' formula gives
\* the sum of the numbers of its column in the rows 2..n (text, booleans and
\* blanks count nothing; X2:X1 is the range X1:X2), an error when the
\* formula stands in its own range, n is 0 or a cell of the range is an
\* error; a HYPERLINK formula gives its label
RECURSIVE Unformatted(_, _, _), SumColumn(_, _, _)
Unformatted(sheet, r, c) ==
    LET cell == CellAt(sheet, r, c)
    IN  IF cell.k = "formula"
        THEN IF cell.v < 1 \/ r \in 2..MaxOf({2, cell.v}) THEN ErrorValue
             ELSE SumColumn(sheet, c, MaxOf({2, cell.v}))
        ELSE IF cell.k = "link" THEN NameCell(cell.v % 100)
        ELSE cell

\* SUM over the rows 2..last of column c
SumColumn(sheet, c, last) ==
    IF last < 2 THEN Num(0)
    ELSE LET below == SumColumn(sheet, c, last - 1)
             x == Unformatted(sheet, last, c)
         IN  IF below.k = "error" \/ x.k = "error" THEN ErrorValue
             ELSE IF x.k \in {"num", "nannum", "infnum"}
             THEN FloatCell(FAdd(ToFloat(below).val, ToFloat(x).val))
             ELSE below

\* the positions <<row, column>> of the sheet that hold anything
FilledCells(sheet) ==
    {p \in (1..(Len(sheet.rows) + 1))
            \X (1..MaxOf({Len(sheet.headers)}
                         \cup {Len(sheet.rows[r]) : r \in 1..Len(sheet.rows)})) :
        Filled(sheet, p[1], p[2])}

\* worksheet.get_all_values(value_render_option='UNFORMATTED_VALUE')[1:]:
\* the rows 2.. down to the last row that holds anything, each as wide as
\* the widest row of the sheet (row 1 included), blanks where nothing is
all_data_rows(sheet) ==
    LET filled == FilledCells(sheet)
        height == MaxOf({1} \cup {p[1] : p \in filled})
        width == MaxOf({0} \cup {p[2] : p \in filled})
    IN  [i \in 1..(height - 1) |->
            [c \in 1..width |-> Unformatted(sheet, i + 1, c)]]

\* len(worksheet.col_values(c)): the last sheet row with a value in column c
ColLen(sheet, c) ==
    LET filled == {r \in 1..(Len(sheet.rows) + 1) : Filled(sheet, r, c)}
    IN  IF filled = {} THEN 0 ELSE MaxOf(filled)

\* worksheet.col_values(c, value_render_option='UNFORMATTED_VALUE')[1:]: the
\* cells of column c from row 2 down to the last one with a value
ColValuesBelowHeader(sheet, c) ==
    [i \in 1..(IF ColLen(sheet, c) <= 1 THEN 0 ELSE ColLen(sheet, c) - 1) |->
        Unformatted(sheet, i + 1, c)]

\* worksheet.get('A2:B', value_render_option='FORMULA'): the rows 2.. up to
\* the last with a value in A or B, formulas as they were entered
RowsAB(sheet) ==
    LET last == IF ColLen(sheet, 1) > ColLen(sheet, 2)
                THEN ColLen(sheet, 1) ELSE ColLen(sheet, 2)
    IN  [i \in 1..(IF last <= 1 THEN 0 ELSE last - 1) |->
            <<CellAt(sheet, i + 1, 1), CellAt(sheet, i + 1, 2)>>]

\* ------------------------------------------------------------------------
\* Hourly calculator
\* ------------------------------------------------------------------------
\* RowVolume had the subtraction been later - earlier
RowVolumeSwapped(prev_cell, curr_cell, face_cell) ==
    IF \E x \in {prev_cell, curr_cell, face_cell} : ToFloat(x).tag = "raise"
    THEN Raised
    ELSE Returned(FMul(FSub(ToFloat(curr_cell).val, ToFloat(prev_cell).val),
                       ToFloat(face_cell).val))

\* the body of the try block for one row: its volume_change, or Raised when
\* one of the three conversions raises
RowVolume(prev_cell, curr_cell, face_cell) ==
    LET prev_inv   == ToFloat(prev_cell)
        curr_inv   == ToFloat(curr_cell)
        face_value == ToFloat(face_cell)
    IN  IF prev_inv.tag = "raise" \/ curr_inv.tag = "raise"
           \/ face_value.tag = "raise"
        THEN Raised
        ELSE Returned(FMul(FSub(prev_inv.val, curr_inv.val), face_value.val))

\* the row loop of one interval over the rows 1..n: the summed volume and
\* the number of rows that reached the end of the try block
RECURSIVE RowLoop(_, _, _, _)
RowLoop(prev_values, curr_values, face_values, n) ==
    IF n = 0 THEN [volume |-> Fin(0), parsed |-> 0]
    ELSE LET acc == RowLoop(prev_values, curr_values, face_values, n - 1)
             rv  == RowVolume(prev_values[n], curr_values[n], face_values[n])
         IN  IF rv.tag = "raise" THEN acc
             ELSE [volume |-> FAdd(acc.volume, rv.val),
                   parsed |-> acc.parsed + 1]

Min2(a, b) == IF a < b THEN a ELSE b

\* `[row[idx - 1] for row in all_data_rows]` raises IndexError when a row
\* is shorter than the column index
ColumnReadable(rs, idx) == \A r \in 1..Len(rs) : Len(rs[r]) >= idx
ColumnValues(rs, idx) == [r \in 1..Len(rs) |-> rs[r][idx]]

\* the volume of one interval between the columns prev_col_idx and
\* curr_col_idx (both readable)
IntervalVolume(rs, prev_col_idx, curr_col_idx, face_values) ==
    LET prev_values == ColumnValues(rs, prev_col_idx)
        curr_values == ColumnValues(rs, curr_col_idx)
    IN  RowLoop(prev_values, curr_values, face_values,
                Min2(Min2(Len(prev_values), Len(curr_values)),
                     Len(face_values)))

\* face_value_col_idx
FaceValueCol == 3

\* the hourly target timestamps: start_time, start_time + 1h, ... <= end_time
HourlyTimestamps(start_time, end_time) ==
    IF end_time < start_time THEN <<>>
    ELSE [k \in 1..(((end_time - start_time) \div 60) + 1) |->
             start_time + 60 * (k - 1)]

\* the window the hourly calculator passes to find_closest_data_column
WindowMinutes == 30

\* Accumulate had the total been assigned instead of added to
AccumulateOverwrite(cumulative_volume, hour_volume) == hour_volume

\* `cumulative_volume += hour_volume`
Accumulate(cumulative_volume, hour_volume) ==
    FAdd(cumulative_volume, hour_volume)

\* the breakdown entry of an interval skipped for missing data
MissingEntry(prev_target, curr_target) ==
    [prev_time |-> FormatHour(prev_target),
     curr_time |-> FormatHour(curr_target),
     change |-> None, missing |-> TRUE]

\* the local variables of calculate_hourly_changes before its loop
HourlyStart ==
    [cumulative_volume |-> Fin(0), bonds_processed |-> 0,
     hourly_breakdown |-> <<>>, hours_processed |-> 0,
     first_snapshot |-> None, last_snapshot |-> None]

\* HourlyStep had a missing interval ended the loop (break for continue)
HourlyStepBreak(acc, prev_column, curr_column, rs, face_values, ts, i) ==
    IF \E k \in 1..Len(acc.hourly_breakdown) : acc.hourly_breakdown[k].missing
    THEN acc
    ELSE IF IsNone(prev_column) \/ IsNone(curr_column)
    THEN [acc EXCEPT !.hourly_breakdown =
                         Append(@, MissingEntry(ts[i + 1], ts[i + 2]))]
    ELSE LET iv == IntervalVolume(rs, Val(prev_column).idx,
                                  Val(curr_column).idx, face_values)
         IN  [acc EXCEPT
                !.first_snapshot =
                    IF IsNone(@) THEN Some(Val(prev_column).header) ELSE @,
                !.last_snapshot = Some(Val(curr_column).header),
                !.cumulative_volume = FAdd(@, iv.volume),
                !.bonds_processed = IF i = 0 THEN @ + iv.parsed ELSE @,
                !.hours_processed = @ + 1,
                !.hourly_breakdown = Append(@,
                    [prev_time |-> FormatHour(Val(prev_column).ts),
                     curr_time |-> FormatHour(Val(curr_column).ts),
                     change |-> Some(iv.volume), missing |-> FALSE])]

\* one iteration (0-based index i) of the loop of calculate_hourly_changes
\* from its test of the two columns found: prev_column and curr_column are
\* what the two calls of find_closest_data_column returned
HourlyStep(acc, prev_column, curr_column, rs, face_values, ts, i) ==
    LET prev_target == ts[i + 1]
        curr_target == ts[i + 2]
    IN  IF IsNone(prev_column) \/ IsNone(curr_column)
        THEN [acc EXCEPT !.hourly_breakdown =
                             Append(@, MissingEntry(prev_target, curr_target))]
        ELSE LET prev == Val(prev_column)
                 curr == Val(curr_column)
                 snap == [acc EXCEPT
                            !.first_snapshot =
                                IF IsNone(@) THEN Some(prev.header) ELSE @,
                            !.last_snapshot = Some(curr.header)]
             IN  IF ~(ColumnReadable(rs, prev.idx) /\ ColumnReadable(rs, curr.idx))
                 THEN snap
                 ELSE LET iv == IntervalVolume(rs, prev.idx, curr.idx, face_values)
                      IN  [snap EXCEPT
                             !.cumulative_volume = Accumulate(@, iv.volume),
                             !.bonds_processed =
                                 IF i = 0 THEN @ + iv.parsed ELSE @,
                             !.hours_processed = @ + 1,
                             !.hourly_breakdown = Append(@,
                                 [prev_time |-> FormatHour(prev.ts),
                                  curr_time |-> FormatHour(curr.ts),
                                  change |-> Some(iv.volume),
                                  missing |-> FALSE])]

\* the loop of calculate_hourly_changes after its first n iterations, on a
\* header row that stays hs: Raised when a find_closest_data_column raised
RECURSIVE HourlyLoop(_, _, _, _, _)
HourlyLoop(hs, rs, face_values, ts, n) ==
    IF n <= 0 THEN Returned(HourlyStart)
    ELSE Only({
        IF before.tag = "raise" THEN Raised
        ELSE LET prev_column ==
                     find_closest_data_column(hs, ts[n], WindowMinutes)
                 curr_column ==
                     find_closest_data_column(hs, ts[n + 1], WindowMinutes)
             IN  IF prev_column.tag = "raise" \/ curr_column.tag = "raise"
                 THEN Raised
                 ELSE Returned(HourlyStep(before.val, prev_column.val,
                                          curr_column.val, rs, face_values,
                                          ts, n - 1)) :
        before \in {HourlyLoop(hs, rs, face_values, ts, n - 1)}})

\* the result of a sheet fetch that failed
FetchError == [error |-> "API data fetch failed"]

\* what calculate_hourly_changes returns after its loop
HourlyResult(acc, start_time, end_time) ==
    [net_change |-> acc.cumulative_volume,
     start_time |-> start_time,
     end_time |-> end_time,
     start_snapshot |-> acc.first_snapshot,
     end_snapshot |-> acc.last_snapshot,
     bonds_processed |-> acc.bonds_processed,
     hours_processed |-> acc.hours_processed,
     hourly_breakdown |-> acc.hourly_breakdown]

\* calculate_hourly_changes(start_time, end_time) on a sheet that stays the
\* same during the call: hs is its header row, rs what get_all_values gives,
\* fetch_ok whether get_all_values answers
calculate_hourly_changes(hs, rs, fetch_ok, start_time, end_time) ==
    LET ts == HourlyTimestamps(start_time, end_time)
    IN  IF ~fetch_ok \/ ~ColumnReadable(rs, FaceValueCol)
        THEN Returned(FetchError)
        ELSE Only({IF loop.tag = "raise" THEN Raised
                   ELSE Returned(HourlyResult(loop.val, start_time, end_time)) :
                      loop \in {HourlyLoop(hs, rs, ColumnValues(rs, FaceValueCol),
                                           ts, Len(ts) - 1)}})

\* ------------------------------------------------------------------------
\* Month-to-date calculator
\* ------------------------------------------------------------------------
\* now.replace(day=1, hour=0, minute=0, second=0, microsecond=0)
MonthStart(t) ==
    LET c == FromMinutes(t) IN ToMinutes(Civil(c.y, c.mo, 1, 0, 0))

\* the columns with month_start <= ts <= end_time, in the order of cols
RECURSIVE MonthColumns(_, _, _)
MonthColumns(cols, month_start, end_time) ==
    IF cols = <<>> THEN <<>>
    ELSE LET rest == MonthColumns(Tail(cols), month_start, end_time)
         IN  IF month_start <= Head(cols).ts /\ Head(cols).ts <= end_time
             THEN <<Head(cols)>> \o rest
             ELSE rest

\* snapshots_by_day[day], in the order of cols
RECURSIVE SnapshotsOfDay(_, _)
SnapshotsOfDay(cols, day) ==
    IF cols = <<>> THEN <<>>
    ELSE IF DateOf(Head(cols).ts) = day
         THEN <<Head(cols)>> \o SnapshotsOfDay(Tail(cols), day)
         ELSE SnapshotsOfDay(Tail(cols), day)

\* sorted(snapshots_by_day.keys())
RECURSIVE SortedDays(_)
SortedDays(days) ==
    IF days = {} THEN <<>>
    ELSE LET first == CHOOSE d \in days : \A e \in days : d <= e
         IN  <<first>> \o SortedDays(days \ {first})

\* the local variables of calculate_mtd_volume_hourly before its loops
MtdStart ==
    [cumulative_volume |-> Fin(0), bonds_processed |-> 0,
     daily_breakdown |-> <<>>, first_snapshot |-> None, last_snapshot |-> None,
     total_hours_processed |-> 0, day_volume |-> Fin(0), day_hours |-> 0]

\* one iteration (0-based index i) of the inner loop, on day number day_idx
MtdIntervalStep(acc, rs, face_values, day_snapshots, day_idx, i) ==
    LET prev == day_snapshots[i + 1]
        curr == day_snapshots[i + 2]
        snap == [acc EXCEPT
                   !.first_snapshot =
                       IF IsNone(@) THEN Some(prev.header) ELSE @,
                   !.last_snapshot = Some(curr.header)]
    IN  IF ~(ColumnReadable(rs, prev.idx) /\ ColumnReadable(rs, curr.idx))
        THEN snap
        ELSE LET iv == IntervalVolume(rs, prev.idx, curr.idx, face_values)
             IN  [snap EXCEPT
                    !.bonds_processed =
                        IF day_idx = 0 /\ i = 0 THEN @ + iv.parsed ELSE @,
                    !.day_volume = FAdd(@, iv.volume),
                    !.day_hours = @ + 1,
                    !.total_hours_processed = @ + 1]

\* the inner loop after its first n iterations
RECURSIVE MtdIntervalLoop(_, _, _, _, _, _)
MtdIntervalLoop(acc, rs, face_values, day_snapshots, day_idx, n) ==
    IF n <= 0 THEN acc
    ELSE Only({MtdIntervalStep(a, rs, face_values, day_snapshots, day_idx, n - 1) :
                  a \in {MtdIntervalLoop(acc, rs, face_values, day_snapshots,
                                         day_idx, n - 1)}})

\* the end of an iteration of the loop over sorted_days
MtdDayEnd(done, day) ==
    [done EXCEPT
       !.cumulative_volume = Accumulate(@, done.day_volume),
       !.daily_breakdown = Append(@,
           [date |-> [mo |-> FromMinutes(day * 1440).mo,
                      d |-> FromMinutes(day * 1440).d],
            change |-> done.day_volume,
            hours |-> done.day_hours])]

\* one iteration (0-based index day_idx) of the loop over sorted_days
MtdDayStep(acc, rs, face_values, month_columns, sorted_days, day_idx) ==
    LET day == sorted_days[day_idx + 1]
        day_snapshots == SortByTs(SnapshotsOfDay(month_columns, day))
    IN  IF Len(day_snapshots) < 2 THEN acc
        ELSE Only({MtdDayEnd(done, day) :
                      done \in {MtdIntervalLoop(
                                    [acc EXCEPT !.day_volume = Fin(0),
                                                !.day_hours = 0],
                                    rs, face_values, day_snapshots, day_idx,
                                    Len(day_snapshots) - 1)}})

\* the loop over sorted_days after its first n iterations
RECURSIVE MtdDayLoop(_, _, _, _, _)
MtdDayLoop(rs, face_values, month_columns, sorted_days, n) ==
    IF n <= 0 THEN MtdStart
    ELSE Only({MtdDayStep(acc, rs, face_values, month_columns, sorted_days, n - 1) :
                  acc \in {MtdDayLoop(rs, face_values, month_columns,
                                      sorted_days, n - 1)}})

\* what calculate_mtd_volume_hourly returns after its loops
MtdResult(acc, month_start, end_time) ==
    [net_change |-> acc.cumulative_volume,
     start_time |-> month_start,
     end_time |-> end_time,
     start_snapshot |-> acc.first_snapshot,
     end_snapshot |-> acc.last_snapshot,
     bonds_processed |-> acc.bonds_processed,
     days_processed |-> Len(acc.daily_breakdown),
     hours_processed |-> acc.total_hours_processed,
     daily_breakdown |-> acc.daily_breakdown]

\* what it returns when the month has no snapshot
MtdInsufficient(month_start, end_time) ==
    [net_change |-> Fin(0), start_time |-> month_start, end_time |-> end_time,
     error |-> "Insufficient data for MTD calculation", days_processed |-> 0]

\* calculate_mtd_volume_hourly from get_data_columns to the test of
\* snapshots_by_day: the columns of the month, or Raised when a header does
\* not parse
MtdMonthColumns(hs, month_start, end_time) ==
    LET all_columns == get_data_columns(hs)
    IN  IF all_columns.tag = "raise" THEN Raised
        ELSE Returned(MonthColumns(all_columns.val, month_start, end_time))

\* calculate_mtd_volume_hourly from its get_all_values on: rs is what
\* get_all_values gives, fetch_ok whether it answers
MtdCompute(rs, fetch_ok, month_columns, month_start, end_time) ==
    LET sorted_days == SortedDays({DateOf(month_columns[k].ts) :
                                      k \in 1..Len(month_columns)})
    IN  IF ~fetch_ok \/ ~ColumnReadable(rs, FaceValueCol)
        THEN FetchError
        ELSE Only({MtdResult(acc, month_start, end_time) :
                      acc \in {MtdDayLoop(rs, ColumnValues(rs, FaceValueCol),
                                          month_columns, sorted_days,
                                          Len(sorted_days))}})

\* calculate_mtd_volume_hourly(end_time) at time t_now on a sheet that stays
\* the same during the call
calculate_mtd_volume_hourly(hs, rs, fetch_ok, t_now, end_time) ==
    LET month_start == MonthStart(t_now)
        month_columns == MtdMonthColumns(hs, month_start, end_time)
    IN  IF month_columns.tag = "raise" THEN Raised
        ELSE IF month_columns.val = <<>>
        THEN Returned(MtdInsufficient(month_start, end_time))
        ELSE Returned(MtdCompute(rs, fetch_ok, month_columns.val, month_start,
                                 end_time))

\* ------------------------------------------------------------------------
\* Notifier and time-of-day dispatch
\* ------------------------------------------------------------------------
\* now.strftime("%I %p"): the hour on the 12-hour clock and AM or PM
Hour12(t) ==
    LET h == FromMinutes(t).h
    IN  [h12 |-> IF h % 12 = 0 THEN 12 ELSE h % 12, pm |-> h >= 12]

\* the title of an alert: its text and, for the month-to-date alert, the
\* "(as of <hour>)" suffix
Title(text, as_of) == [text |-> text, as_of |-> as_of]

\* the message send_slack_alert builds from a result without an 'error' key
\* at time t_now; a comparison with nan is false
SlackMessage(alert_type, change_data, is_mtd, t_now) ==
    [title |-> alert_type,
     is_mtd |-> is_mtd,
     net_change |-> change_data.net_change,
     color |-> IF FGe0(change_data.net_change)
               THEN "#36a64f" ELSE "#ff0000",
     direction |-> IF FGt0(change_data.net_change) THEN "Sold"
                   ELSE IF FLt0(change_data.net_change) THEN "Bought"
                   ELSE "No Change",
     start_snapshot |-> change_data.start_snapshot,
     end_snapshot |-> change_data.end_snapshot,
     bonds_processed |-> change_data.bonds_processed,
     hours_processed |-> change_data.hours_processed,
     ts |-> t_now]

\* send_slack_alert at time t_now: the POSTs after the call, given those
\* before it
send_slack_alert(sent, alert_type, change_data, is_mtd, t_now) ==
    IF "error" \in DOMAIN change_data THEN sent
    ELSE Append(sent, SlackMessage(alert_type, change_data, is_mtd, t_now))

\* now.replace(hour=h, minute=mi, second=0, microsecond=0)
ReplaceTime(t, h, mi) ==
    LET c == FromMinutes(t) IN ToMinutes(Civil(c.y, c.mo, c.d, h, mi))

\* an alert before its computation: the title it posts under, which
\* calculator it calls, and the range it passes
Alert(title, is_mtd, start_time, end_time) ==
    [title |-> title, is_mtd |-> is_mtd, start_time |-> start_time,
     end_time |-> end_time]

\* send_24hr_11am_alert up to its call of calculate_hourly_changes, the
\* clock reading t_now
send_24hr_11am_alert(t_now) ==
    Alert(Title("24hr Volume Change (11 AM - 11 AM)", None), FALSE,
          ReplaceTime(t_now, 11, 0) - 1440, ReplaceTime(t_now, 11, 0))

\* send_24hr_6pm_alert up to its call of calculate_hourly_changes
send_24hr_6pm_alert(t_now) ==
    Alert(Title("24hr Volume Change (6 PM - 6 PM)", None), FALSE,
          ReplaceTime(t_now, 18, 0) - 1440, ReplaceTime(t_now, 18, 0))

\* send_mtd_alert up to its call of calculate_mtd_volume_hourly: end_time
\* is 23:59:59 of today, 23:59 at minute resolution; the calculator takes no
\* start_time
send_mtd_alert(t_now) ==
    Alert(Title("Month-to-Date Cumulative Volume (as of )",
                Some(Hour12(t_now))), TRUE, 0, ReplaceTime(t_now, 23, 59))

\* the send_* method of a name
AlertOf(name, t_now) ==
    IF name = "send_24hr_11am_alert" THEN send_24hr_11am_alert(t_now)
    ELSE IF name = "send_24hr_6pm_alert" THEN send_24hr_6pm_alert(t_now)
    ELSE send_mtd_alert(t_now)

\* the three window tests of run_scheduled_alerts
In11amWindow(current_hour, current_minute) ==
    (current_hour = 10 /\ current_minute >= 30)
    \/ (current_hour = 11 /\ current_minute <= 30)

In6pmWindow(current_hour, current_minute) ==
    (current_hour = 17 /\ current_minute >= 30)
    \/ (current_hour = 18 /\ current_minute <= 30)

In9pmWindow(current_hour, current_minute) ==
    (current_hour = 21 /\ current_minute >= 10)
    \/ (current_hour = 21 /\ current_minute <= 40)

\* run_scheduled_alerts, the clock reading t_now: the send_* methods it
\* calls, in order
run_scheduled_alerts(t_now) ==
    LET current_hour == FromMinutes(t_now).h
        current_minute == FromMinutes(t_now).mi
    IN  IF In11amWindow(current_hour, current_minute)
        THEN <<"send_24hr_11am_alert", "send_mtd_alert">>
        ELSE IF In6pmWindow(current_hour, current_minute)
        THEN <<"send_24hr_6pm_alert">>
        ELSE IF In9pmWindow(current_hour, current_minute)
        THEN <<"send_24hr_6pm_alert", "send_mtd_alert">>
        ELSE <<>>

\* ------------------------------------------------------------------------
\* Worksheet writes
\* ------------------------------------------------------------------------
\* the characters of a bond name: 'Unknown Bond', 'TOTAL:', 'bond <d>' for
\* the codes below 10 and 'BOND <d mod 10>' for the others
NameWord(name) ==
    IF name = UnknownBond
    THEN <<"U", "n", "k", "n", "o", "w", "n", " ", "B", "o", "n", "d">>
    ELSE IF name = TotalName THEN <<"T", "O", "T", "A", "L", ":">>
    ELSE (IF name < 10 THEN <<"b", "o", "n", "d", " ">>
          ELSE <<"B", "O", "N", "D", " ">>)
         \o <<<<"0", "1", "2", "3", "4", "5", "6", "7", "8",
                "9">>[(name % 10) + 1]>>

\* what row_values(1) gives for a cell written into row 1: a header as it
\* is, a name as its characters, a HYPERLINK formula as its label
CellAsHeader(value) ==
    IF "word" \in DOMAIN value THEN value
    ELSE IF value.k = "text" THEN Header(NameWord(value.v), NoStamp)
    ELSE IF value.k = "link" THEN Header(NameWord(value.v % 100), NoStamp)
    ELSE EmptyHeader

\* a sequence with position c set to x, the positions it lacks up to c
\* filled with fill
SetAt(s, c, x, fill) ==
    [i \in 1..(IF c > Len(s) THEN c ELSE Len(s)) |->
        IF i = c THEN x ELSE IF i <= Len(s) THEN s[i] ELSE fill]

\* worksheet.update_cell(row, col, value): row 1 holds headers, the rows
\* below hold cells
update_cell(sheet, row, col, value) ==
    IF row = 1
    THEN [sheet EXCEPT !.headers =
             SetAt(@, col, CellAsHeader(value), EmptyHeader)]
    ELSE [sheet EXCEPT !.rows =
             SetAt(@, row - 1,
                   SetAt(IF row - 1 <= Len(@) THEN @[row - 1] ELSE <<>>,
                         col, value, Blank),
                   <<>>)]

\* the sheet after a sequence of writes [row, col, value]
RECURSIVE ApplyWrites(_, _)
ApplyWrites(sheet, writes) ==
    IF writes = <<>> THEN sheet
    ELSE ApplyWrites(update_cell(sheet, writes[1].row, writes[1].col,
                                 writes[1].value),
                     Tail(writes))

\* ------------------------------------------------------------------------
\* Worksheet calls of the alert system
\* ------------------------------------------------------------------------
\* worksheet.row_values(row), worksheet.get_all_values(
\* value_render_option='UNFORMATTED_VALUE') and worksheet.update_cell(row,
\* col, value) as calls to make
RowValues(row) == [method |-> "row_values", args |-> <<row>>]
GetAllValues == [method |-> "get_all_values", args |-> <<>>]
UpdateCell(row, col, value) ==
    [method |-> "update_cell", args |-> <<row, col, value>>]

\* a call made on a sheet: the sheet it leaves and the value it gives.
\* row_values(1) gives row 1 and get_all_values gives the rows (val is what
\* follows its first row, all_data[1:]); update_cell gives nothing and
\* leaves the sheet with the cell set
WorksheetCall(sheet, c) ==
    IF c.method = "update_cell"
    THEN [sheet |-> update_cell(sheet, c.args[1], c.args[2], c.args[3]),
          val |-> None]
    ELSE IF c.method = "row_values"
    THEN [sheet |-> sheet, val |-> sheet.headers]
    ELSE [sheet |-> sheet, val |-> all_data_rows(sheet)]

\* calls made one after the other: the sheet they leave, the values they give
RECURSIVE WorksheetCalls(_, _)
WorksheetCalls(sheet, calls) ==
    IF calls = <<>> THEN [sheet |-> sheet, vals |-> <<>>]
    ELSE LET first == WorksheetCall(sheet, Head(calls))
             rest == WorksheetCalls(first.sheet, Tail(calls))
         IN  [sheet |-> rest.sheet, vals |-> <<first.val>> \o rest.vals]

\* the header send_slack_alert would leave in cell Z1 if it kept in the
\* sheet that an alert went out
SentMark == Header(<<"s", "e", "n", "t">>, NoStamp)

\* AlertCalls had send_slack_alert, after its POST, noted in cell Z1 of the
\* sheet that the alert went out
AlertCallsMarkingSent(pc) ==
    IF pc \in {"prev", "curr", "mtd_columns"} THEN <<RowValues(1)>>
    ELSE IF pc \in {"fetch", "mtd_fetch"} THEN <<GetAllValues>>
    ELSE IF pc = "post" THEN <<UpdateCell(1, 26, SentMark)>>
    ELSE <<>>

\* the worksheet calls of the step of the alert path that stands at pc:
\* get_data_columns, which find_closest_data_column calls (pc "prev" and
\* "curr") and calculate_mtd_volume_hourly too ("mtd_columns"), reads row 1;
\* the two calculators fetch all values ("fetch", "mtd_fetch"); the other
\* steps (the start of a call, the clock reads, send_slack_alert) make no
\* worksheet call
AlertCalls(pc) ==
    IF pc \in {"prev", "curr", "mtd_columns"} THEN <<RowValues(1)>>
    ELSE IF pc \in {"fetch", "mtd_fetch"} THEN <<GetAllValues>>
    ELSE <<>>

\* ------------------------------------------------------------------------
\* The alert path, one worksheet call or clock read at a time
\* ------------------------------------------------------------------------
Idle == [op |-> "idle", args |-> <<>>]
NoRet == [tag |-> "none", val |-> None]
Call(op, args) == [op |-> op, args |-> args]

\* 2025-11-01 10:00 IST, the reference time of the bounded inputs
T0 == ToMinutes(Civil(2025, 11, 1, 10, 0))

\* the local variables of an alert call: where it stands (pc), the send_*
\* methods still to call (the one under way first), those called and the
\* results of their calculators, the alert under way (for a calculator
\* called on its own: its range), and the locals of the two calculators
IdleFrame ==
    [pc |-> "idle", todo |-> <<>>, ran |-> <<>>, results |-> <<>>,
     alert |-> Alert(Title("", None), FALSE, 0, 0),
     rs |-> <<>>, acc |-> HourlyStart, i |-> 0, prev_column |-> None,
     month_start |-> 0, month_columns |-> <<>>]

\* the step of the alert path at pc makes its worksheet calls on the sheet
\* as it stands: what they leave and give
AlertOnSheet(pc) == WorksheetCalls(Sheet(headers, rows), AlertCalls(pc))

\* the worksheet is as the calls of a step have left it
SheetLeftBy(done) ==
    headers' = done.sheet.headers /\ rows' = done.sheet.rows

\* a call of calculate_hourly_changes(start_time, end_time) begins
StartHourly(start_time, end_time) ==
    /\ call' = Call("calculate_hourly_changes", <<start_time, end_time>>)
    /\ ret' = NoRet
    /\ frame' = [IdleFrame EXCEPT
                    !.pc = "fetch",
                    !.alert = Alert(Title("", None), FALSE, start_time, end_time)]

\* a call of calculate_mtd_volume_hourly(end_time) begins
StartMtd(end_time) ==
    /\ call' = Call("calculate_mtd_volume_hourly", <<end_time>>)
    /\ ret' = NoRet
    /\ frame' = [IdleFrame EXCEPT
                    !.pc = "mtd_now",
                    !.alert = Alert(Title("", None), TRUE, 0, end_time)]

\* a call of run_scheduled_alerts or of a send_* method begins at time t,
\* with the send_* methods it is going to call
StartSends(op, t, todo) ==
    /\ call' = Call(op, <<t, Len(posts)>>)
    /\ IF todo = <<>>
       THEN /\ ret' = Returned([ran |-> <<>>, results |-> <<>>])
            /\ frame' = IdleFrame
       ELSE /\ ret' = NoRet
            /\ frame' = [IdleFrame EXCEPT !.pc = "send", !.todo = todo]

\* the calculator of the call under way returns or raises: called on its
\* own, that is the result of the call; within a send_* method, an exception
\* ends the call (nothing catches it before main()), a result goes to
\* send_slack_alert
Computed(computed) ==
    IF call.op \in {"calculate_hourly_changes", "calculate_mtd_volume_hourly"}
    THEN /\ ret' = computed
         /\ frame' = IdleFrame
    ELSE IF computed.tag = "raise"
    THEN /\ ret' = [tag |-> "raise",
                    val |-> [ran |-> frame.ran,
                             results |-> Append(frame.results, computed)]]
         /\ frame' = IdleFrame
    ELSE /\ ret' = ret
         /\ frame' = [frame EXCEPT !.pc = "post",
                                   !.results = Append(@, computed)]

\* a send_* method reads the clock and sets up its range
SendReadClock ==
    /\ frame.pc = "send"
    /\ \E alert \in {AlertOf(Head(frame.todo), now)} :
          frame' = [frame EXCEPT
                       !.pc = IF alert.is_mtd THEN "mtd_now" ELSE "fetch",
                       !.alert = alert,
                       !.ran = Append(@, Head(frame.todo))]
    /\ SheetLeftBy(AlertOnSheet("send"))
    /\ UNCHANGED <<now, call, ret, posts, runs, scraper, ticks>>

\* calculate_hourly_changes up to its loop: get_all_values, the face values
FetchAllValues ==
    /\ frame.pc = "fetch"
    /\ \E fetch_ok \in BOOLEAN, done \in {AlertOnSheet("fetch")} :
       \E rs \in {done.vals[1]} :
          /\ SheetLeftBy(done)
          /\ IF ~fetch_ok \/ ~ColumnReadable(rs, FaceValueCol)
             THEN Computed(Returned(FetchError))
             ELSE IF Len(HourlyTimestamps(frame.alert.start_time,
                                          frame.alert.end_time)) <= 1
             THEN Computed(Returned(HourlyResult(HourlyStart,
                                                 frame.alert.start_time,
                                                 frame.alert.end_time)))
             ELSE /\ frame' = [frame EXCEPT !.pc = "prev", !.rs = rs,
                                            !.acc = HourlyStart, !.i = 0]
                  /\ ret' = ret
    /\ UNCHANGED <<now, call, posts, runs, scraper, ticks>>

\* the first find_closest_data_column of an iteration: it reads row 1
FindPrevColumn ==
    /\ frame.pc = "prev"
    /\ \E done \in {AlertOnSheet("prev")} :
       \E found \in {find_closest_data_column(
                        done.vals[1],
                        frame.alert.start_time + 60 * frame.i,
                        WindowMinutes)} :
          /\ SheetLeftBy(done)
          /\ IF found.tag = "raise" THEN Computed(Raised)
             ELSE /\ frame' = [frame EXCEPT !.pc = "curr",
                                            !.prev_column = found.val]
                  /\ ret' = ret
    /\ UNCHANGED <<now, call, posts, runs, scraper, ticks>>

\* the second find_closest_data_column of an iteration, which reads row 1
\* again, and the rest of the iteration
FindCurrColumn ==
    /\ frame.pc = "curr"
    /\ SheetLeftBy(AlertOnSheet("curr"))
    /\ \E ts \in {HourlyTimestamps(frame.alert.start_time,
                                   frame.alert.end_time)} :
       \E found \in {find_closest_data_column(AlertOnSheet("curr").vals[1],
                                              ts[frame.i + 2],
                                              WindowMinutes)} :
          IF found.tag = "raise" THEN Computed(Raised)
          ELSE \E acc \in {HourlyStep(frame.acc, frame.prev_column, found.val,
                                      frame.rs,
                                      ColumnValues(frame.rs, FaceValueCol),
                                      ts, frame.i)} :
                  IF frame.i + 2 >= Len(ts)
                  THEN Computed(Returned(HourlyResult(acc,
                                                      frame.alert.start_time,
                                                      frame.alert.end_time)))
                  ELSE /\ frame' = [frame EXCEPT !.pc = "prev", !.acc = acc,
                                                 !.i = @ + 1]
                       /\ ret' = ret
    /\ UNCHANGED <<now, call, posts, runs, scraper, ticks>>

\* calculate_mtd_volume_hourly reads the clock
MtdReadClock ==
    /\ frame.pc = "mtd_now"
    /\ frame' = [frame EXCEPT !.pc = "mtd_columns",
                              !.month_start = MonthStart(now)]
    /\ SheetLeftBy(AlertOnSheet("mtd_now"))
    /\ UNCHANGED <<now, call, ret, posts, runs, scraper, ticks>>

\* calculate_mtd_volume_hourly reads row 1 (get_data_columns) and groups
\* the columns of the month
MtdGetDataColumns ==
    /\ frame.pc = "mtd_columns"
    /\ SheetLeftBy(AlertOnSheet("mtd_columns"))
    /\ \E month_columns \in {MtdMonthColumns(
                                AlertOnSheet("mtd_columns").vals[1],
                                frame.month_start, frame.alert.end_time)} :
          IF month_columns.tag = "raise" THEN Computed(Raised)
          ELSE IF month_columns.val = <<>>
          THEN Computed(Returned(MtdInsufficient(frame.month_start,
                                                 frame.alert.end_time)))
          ELSE /\ frame' = [frame EXCEPT !.pc = "mtd_fetch",
                                         !.month_columns = month_columns.val]
               /\ ret' = ret
    /\ UNCHANGED <<now, call, posts, runs, scraper, ticks>>

\* calculate_mtd_volume_hourly from its get_all_values to its return
MtdFetchAllValues ==
    /\ frame.pc = "mtd_fetch"
    /\ SheetLeftBy(AlertOnSheet("mtd_fetch"))
    /\ \E fetch_ok \in BOOLEAN :
          Computed(Returned(MtdCompute(AlertOnSheet("mtd_fetch").vals[1],
                                       fetch_ok, frame.month_columns,
                                       frame.month_start,
                                       frame.alert.end_time)))
    /\ UNCHANGED <<now, call, posts, runs, scraper, ticks>>

\* send_slack_alert within a send_* method: it reads the clock for the
\* message; the method returns, and the next one, if any, is called
PostAlert ==
    /\ frame.pc = "post"
    /\ posts' = send_slack_alert(posts, frame.alert.title,
                                 frame.results[Len(frame.results)].val,
                                 frame.alert.is_mtd, now)
    /\ IF Len(frame.todo) <= 1
       THEN /\ ret' = Returned([ran |-> frame.ran, results |-> frame.results])
            /\ frame' = IdleFrame
       ELSE /\ ret' = ret
            /\ frame' = [frame EXCEPT !.pc = "send", !.todo = Tail(@)]
    /\ SheetLeftBy(AlertOnSheet("post"))
    /\ UNCHANGED <<now, call, runs, scraper, ticks>>

\* the clock moves on by d minutes while a call is under way: before a
\* clock read of the alert path, or before that of the scraper
ClockAdvances(d) ==
    /\ ticks < MaxTicks
    /\ \/ frame.pc \in {"send", "mtd_now", "post"}
       \/ \E j \in 1..Len(scraper) : scraper[j].pc = "338"
    /\ now' = now + d
    /\ ticks' = ticks + 1
    /\ UNCHANGED <<headers, rows, call, ret, posts, runs, frame, scraper>>

\* ------------------------------------------------------------------------
\* Common parts of the specifications
\* ------------------------------------------------------------------------
\* no call has been made and none is under way
AtRest ==
    /\ call = Idle
    /\ ret = NoRet
    /\ posts = <<>>
    /\ runs = 0
    /\ frame = IdleFrame
    /\ scraper = <<>>
    /\ ticks = 0

\* all sequences over S of length at most n
SeqsUpTo(S, n) == UNION {[1..k -> S] : k \in 0..n}

\* the parseable 'Data' columns of a header row, stated on the header row
\* itself: header starts with Data, has the digit group, the group is a date
IsSnapshotHeader(h) ==
    StartsWithData(h) /\ h.stamp.has /\ ValidStamp(h.stamp)
SnapshotColumns(hs) ==
    {Col(i, hs[i], ToMinutes(hs[i].stamp)) :
        i \in {j \in 1..Len(hs) : IsSnapshotHeader(hs[j])}}

Abs(x) == IF x < 0 THEN -x ELSE x

\* ------------------------------------------------------------------------
\* SpecCols: the timestamp column index on bounded header rows
\* ------------------------------------------------------------------------
\* 'Data (...)' headers with and without a valid date, 'Data', 'Data (latest)',
\* 'Data(2025-11-01 10:00)', 'Database (2025-11-01 10:00)', an 'Hourly Change'
\* header, 'Name' and an empty cell
HeaderPool ==
    {DataHeader(2025, 11, 1, 10, 0), DataHeader(2025, 11, 1, 11, 0),
     DataHeader(2025, 10, 31, 11, 0),
     DataHeader(2025, 11, 31, 10, 0),      \* digit group, no such day
     DataHeader(2025, 13, 1, 10, 0),       \* digit group, no such month
     Header(<<"D", "a", "t", "a">>, NoStamp),
     Header(<<"D", "a", "t", "a", " ", "(", "l", "a", "t", "e", "s", "t", ")">>,
            NoStamp),
     Header(<<"D", "a", "t", "a">>, Stamp(2025, 11, 1, 10, 0)),
     Header(<<"D", "a", "t", "a", "b", "a", "s", "e", " ">>,
            Stamp(2025, 11, 1, 10, 0)),
     HourlyChangeHeader(2025, 11, 1, 11, 0),
     Header(<<"N", "a", "m", "e">>, NoStamp),
     EmptyHeader}

InitCols ==
    /\ headers \in SeqsUpTo(HeaderPool, MaxHeaders)
    /\ rows = <<>>
    /\ now = T0
    /\ AtRest

GetDataColumns ==
    /\ call = Idle
    /\ call' = Call("get_data_columns", <<>>)
    /\ ret' = get_data_columns(headers)
    /\ UNCHANGED <<headers, rows, now, posts, runs, frame, scraper, ticks>>

ParseHeader ==
    /\ call = Idle
    /\ \E i \in 1..Len(headers) :
          /\ call' = Call("parse_timestamp_from_header", <<i>>)
          /\ ret' = parse_timestamp_from_header(headers[i])
    /\ UNCHANGED <<headers, rows, now, posts, runs, frame, scraper, ticks>>

NextCols == GetDataColumns \/ ParseHeader
SpecCols == InitCols /\ [][NextCols]_vars

\* ------------------------------------------------------------------------
\* SpecFind: the closest-column finder on bounded header rows
\* ------------------------------------------------------------------------
FindPool ==
    {DataHeader(2025, 11, 1, 10, 0), DataHeader(2025, 11, 1, 10, 20),
     DataHeader(2025, 11, 1, 10, 40), DataHeader(2025, 11, 1, 11, 0),
     DataHeader(2028, 7, 27, 10, 0)}       \* 999 days after T0

FindTargets == {T0, T0 + 30, T0 + 45}
FindWindows == {0, 15, WindowMinutes, Days999}

InitFind ==
    /\ headers \in SeqsUpTo(FindPool, MaxFindCols)
    /\ rows = <<>>
    /\ now = T0
    /\ AtRest

FindClosest ==
    /\ call = Idle
    /\ \E target_time \in FindTargets, window_minutes \in FindWindows :
          /\ call' = Call("find_closest_data_column",
                          <<target_time, window_minutes>>)
          /\ ret' = find_closest_data_column(headers, target_time,
                                             window_minutes)
    /\ UNCHANGED <<headers, rows, now, posts, runs, frame, scraper, ticks>>

NextFind == FindClosest
SpecFind == InitFind /\ [][NextFind]_vars

\* ------------------------------------------------------------------------
\* Claims on the column index and the closest-column finder
\* ------------------------------------------------------------------------
\* s is sorted ascending by timestamp
SortedByTs(s) == \A i, j \in 1..Len(s) : i < j => s[i].ts <= s[j].ts

\* C9: for every header row, get_data_columns returns without raising exactly
\* the columns whose header starts with 'Data' and holds a parseable
\* timestamp, sorted ascending by timestamp; a header whose digit group is
\* not a valid date or time is silently excluded. (The claim as stated.)
C9_IndexNeverRaises ==
    call.op = "get_data_columns" =>
        /\ ret.tag = "ok"
        /\ {ret.val[k] : k \in 1..Len(ret.val)} = SnapshotColumns(headers)
        /\ Len(ret.val) = Cardinality(SnapshotColumns(headers))
        /\ SortedByTs(ret.val)

\* C8: find_closest_data_column returns None when no data column lies within
\* the tolerance of the target, and otherwise a column of minimal absolute
\* distance (on a tie the one earliest in ascending timestamp order); it
\* never raises for lack of a match. (The claim as stated.)
C8_ClosestWithinTolerance ==
    call.op = "find_closest_data_column" =>
        LET target_time == call.args[1]
            window_minutes == call.args[2]
            within == {c \in SnapshotColumns(headers) :
                          Abs(c.ts - target_time) <= window_minutes}
        IN  /\ ret.tag = "ok"
            /\ within = {} => IsNone(ret.val)
            /\ within # {} =>
                  /\ ~IsNone(ret.val)
                  /\ Val(ret.val) \in within
                  /\ \A c \in within :
                        /\ Abs(Val(ret.val).ts - target_time)
                              <= Abs(c.ts - target_time)
                        /\ Abs(Val(ret.val).ts - target_time)
                              = Abs(c.ts - target_time)
                           => Val(ret.val).ts <= c.ts


\* ------------------------------------------------------------------------
\* SpecCalc: the two volume calculators on bounded sheets that stay the same
\* ------------------------------------------------------------------------
\* the first three columns of the sheet: name, URL, face value
BaseHeaders ==
    <<Header(<<"N", "a", "m", "e">>, NoStamp),
      Header(<<"U", "R", "L">>, NoStamp),
      Header(<<"F", "a", "c", "e", " ", "V", "a", "l", "u", "e">>, NoStamp)>>

\* the snapshot times a sheet of SpecCalc draws from, ascending: one in the
\* previous month, four on 2025-11-01 around the hours 10:00, 11:00 and
\* 12:00, one on the next day
CalcTimePool ==
    <<Stamp(2025, 10, 31, 11, 0), Stamp(2025, 11, 1, 10, 0),
      Stamp(2025, 11, 1, 10, 20), Stamp(2025, 11, 1, 11, 0),
      Stamp(2025, 11, 1, 11, 30), Stamp(2025, 11, 2, 10, 0)>>

\* the scraper appends snapshot columns in time order: the index sequences
\* into CalcTimePool that increase
AscendingPicks(n) ==
    {s \in SeqsUpTo(1..Len(CalcTimePool), n) :
        \A i, j \in 1..Len(s) : i < j => s[i] < s[j]}

SnapshotHeaders(picks) ==
    [k \in 1..Len(picks) |->
        Header(<<"D", "a", "t", "a", " ">>, CalcTimePool[picks[k]])]

\* the numeric filling of a sheet: the cell of row r and column c
Seeds == {1, 2}
PatternCell(seed, r, c) ==
    IF c < FaceValueCol THEN Text
    ELSE IF c = FaceValueCol THEN Num(1 + ((seed + r) % 3))
    ELSE Num(((seed + 2 * r) * c + r) % 5)

\* a sheet is the numeric filling with at most one cell replaced by a blank,
\* by text ('N/A', '2', 'nan', '-inf') or by TRUE; NoDefect replaces nothing
DefectCells == {Blank, Text, NumText(2), NanText, InfText(-1), Bool(TRUE)}
NoDefect == [r |-> 0, c |-> 0, cell |-> Blank]
Defects(n, width) ==
    {NoDefect} \cup
    {[r |-> r, c |-> c, cell |-> x] :
        r \in 1..n, c \in FaceValueCol..width, x \in DefectCells}

SheetRows(seed, n, width, defect) ==
    [r \in 1..n |->
        [c \in 1..width |->
            IF defect.r = r /\ defect.c = c THEN defect.cell
            ELSE PatternCell(seed, r, c)]]

\* the time of the month-to-date calls: 2025-11-02 10:30
CalcNow == T0 + 1440 + 30

InitCalc ==
    /\ \E picks \in AscendingPicks(MaxRangeCols), n \in 0..MaxRows,
          seed \in Seeds :
          \E defect \in Defects(n, Len(BaseHeaders) + Len(picks)) :
             /\ headers = BaseHeaders \o SnapshotHeaders(picks)
             /\ rows = SheetRows(seed, n, Len(BaseHeaders) + Len(picks), defect)
    /\ now = CalcNow
    /\ AtRest

\* the ranges of the hourly calls: from 10:00 on 2025-11-01 an empty range, a
\* reversed one and 1..MaxHours hourly intervals; from 09:00, where no
\* snapshot is near, 2..MaxHours intervals
CalcRanges ==
    {<<T0, T0 + 60 * k>> : k \in 0..MaxHours}
    \cup {<<T0, T0 - 60>>}
    \cup {<<T0 - 60, T0 + 60 * k>> : k \in 1..(MaxHours - 1)}

\* a call of calculate_hourly_changes
CalcHourly ==
    /\ call = Idle
    /\ \E range \in CalcRanges : StartHourly(range[1], range[2])
    /\ UNCHANGED <<headers, rows, now, posts, runs, scraper, ticks>>

\* a call of calculate_mtd_volume_hourly, as send_mtd_alert makes it
CalcMtd ==
    /\ call = Idle
    /\ StartMtd(ReplaceTime(now, 23, 59))
    /\ UNCHANGED <<headers, rows, now, posts, runs, scraper, ticks>>

NextCalc ==
    \/ CalcHourly \/ CalcMtd
    \/ FetchAllValues \/ FindPrevColumn \/ FindCurrColumn
    \/ MtdReadClock \/ MtdGetDataColumns \/ MtdFetchAllValues
SpecCalc == InitCalc /\ [][NextCalc]_vars

\* ------------------------------------------------------------------------
\* What the claims on the calculators speak of, stated on the sheet itself
\* ------------------------------------------------------------------------
\* the snapshot columns within the hourly tolerance of a target time
Near(hs, t) == {c \in SnapshotColumns(hs) : Abs(c.ts - t) <= WindowMinutes}

\* the nearest of them, the earliest on a tie
Nearest(hs, t) ==
    CHOOSE c \in Near(hs, t) :
        \A d \in Near(hs, t) :
            \/ Abs(c.ts - t) < Abs(d.ts - t)
            \/ Abs(c.ts - t) = Abs(d.ts - t) /\ c.ts <= d.ts

\* the hourly intervals 1..n of a range and their target times 0..n
NumIntervals(start_time, end_time) ==
    IF end_time < start_time THEN 0 ELSE (end_time - start_time) \div 60
Target(start_time, k) == start_time + 60 * k

\* interval i has an endpoint without a snapshot within the tolerance
IntervalMissing(hs, start_time, i) ==
    \/ Near(hs, Target(start_time, i - 1)) = {}
    \/ Near(hs, Target(start_time, i)) = {}
ComputedIntervals(hs, start_time, end_time) ==
    {i \in 1..NumIntervals(start_time, end_time) :
        ~IntervalMissing(hs, start_time, i)}

\* the column indices interval i compares
PrevIdx(hs, start_time, i) == Nearest(hs, Target(start_time, i - 1)).idx
CurrIdx(hs, start_time, i) == Nearest(hs, Target(start_time, i)).idx

\* the cells a row brings to the comparison of the columns a and b: numbers
\* only; one that float() rejects; a blank one; one that is text but no
\* number ('N/A', 'nan', '-inf')
RowCells(row, a, b) == {row[a], row[b], row[FaceValueCol]}
RowNumeric(row, a, b) == \A x \in RowCells(row, a, b) : x.k = "num"
RowRejected(row, a, b) ==
    \E x \in RowCells(row, a, b) :
        x.k \notin {"blank", "num", "bool", "numtext", "nantext", "inftext",
                    "nannum", "infnum"}
RowHasBlank(row, a, b) == \E x \in RowCells(row, a, b) : x.k = "blank"
RowHasGarbage(row, a, b) ==
    \E x \in RowCells(row, a, b) : x.k \in {"text", "nantext", "inftext"}
AllNumeric(rs, a, b) == \A r \in 1..Len(rs) : RowNumeric(rs[r], a, b)

\* the claimed sum over the rows 1..n: (earlier - later) * face_value
RECURSIVE DirectDelta(_, _, _, _)
DirectDelta(rs, n, a, b) ==
    IF n = 0 THEN Fin(0)
    ELSE Fin(DirectDelta(rs, n - 1, a, b).v
             + (rs[n][a].v - rs[n][b].v) * rs[n][FaceValueCol].v)

\* the same sum over the rows float() does not reject, a cell counting as
\* the float it holds or spells and a blank cell as 0; with skip_blank the
\* rows holding a blank cell are left out as well
CellValue(cell) ==
    IF cell.k \in {"num", "numtext", "bool"} THEN Fin(cell.v)
    ELSE IF cell.k \in {"nantext", "nannum"} THEN NaN
    ELSE IF cell.k \in {"inftext", "infnum"} THEN [c |-> "inf", v |-> cell.v]
    ELSE Fin(0)
RowIncluded(row, a, b, skip_blank) ==
    ~RowRejected(row, a, b) /\ (skip_blank => ~RowHasBlank(row, a, b))
RECURSIVE RowSum(_, _, _, _, _)
RowSum(rs, n, a, b, skip_blank) ==
    IF n = 0 THEN Fin(0)
    ELSE FAdd(RowSum(rs, n - 1, a, b, skip_blank),
              IF RowIncluded(rs[n], a, b, skip_blank)
              THEN FMul(FSub(CellValue(rs[n][a]), CellValue(rs[n][b])),
                        CellValue(rs[n][FaceValueCol]))
              ELSE Fin(0))
RowCount(rs, a, b, skip_blank) ==
    Cardinality({r \in 1..Len(rs) : RowIncluded(rs[r], a, b, skip_blank)})

\* the sum of RowSum over a set of hourly intervals
RECURSIVE HourlySum(_, _, _, _, _)
HourlySum(hs, rs, start_time, intervals, skip_blank) ==
    IF intervals = {} THEN Fin(0)
    ELSE LET i == CHOOSE x \in intervals : TRUE
         IN  FAdd(RowSum(rs, Len(rs), PrevIdx(hs, start_time, i),
                         CurrIdx(hs, start_time, i), skip_blank),
                  HourlySum(hs, rs, start_time, intervals \ {i}, skip_blank))

\* the month-to-date calculator compares the snapshots of the month that
\* follow each other on the same calendar day
MonthSnapshots(hs, t_now, end_time) ==
    {c \in SnapshotColumns(hs) : MonthStart(t_now) <= c.ts /\ c.ts <= end_time}
SameDayPairs(cols) ==
    {p \in cols \X cols :
        /\ p[1].ts < p[2].ts
        /\ DateOf(p[1].ts) = DateOf(p[2].ts)
        /\ ~\E c \in cols : p[1].ts < c.ts /\ c.ts < p[2].ts}
RECURSIVE PairSum(_, _, _)
PairSum(rs, pairs, skip_blank) ==
    IF pairs = {} THEN Fin(0)
    ELSE LET p == CHOOSE x \in pairs : TRUE
         IN  FAdd(RowSum(rs, Len(rs), p[1].idx, p[2].idx, skip_blank),
                  PairSum(rs, pairs \ {p}, skip_blank))

\* the call in the state, once it has returned; the range of an hourly call
\* is its two arguments, that of a month-to-date call runs from the start of
\* the month of the clock to its argument
IsHourly == call.op = "calculate_hourly_changes" /\ ret.tag = "ok"
IsMtd == call.op = "calculate_mtd_volume_hourly" /\ ret.tag = "ok"
Flagged == "error" \in DOMAIN ret.val
StartArg ==
    IF call.op = "calculate_hourly_changes" THEN call.args[1]
    ELSE MonthStart(now)
EndArg == call.args[Len(call.args)]

\* the rows in the order p, and the rows without row r
Permute(rs, p) == [k \in 1..Len(rs) |-> rs[p[k]]]
RemoveRow(rs, r) == [k \in 1..(Len(rs) - 1) |-> IF k < r THEN rs[k] ELSE rs[k + 1]]

\* ------------------------------------------------------------------------
\* Claims on the delta aggregation (SpecCalc)
\* ------------------------------------------------------------------------
\* C1: in calculate_hourly_changes, for every computed interval whose
\* quantity and face-value cells are all numeric, the interval's change is
\* the sum over all rows of (earlier quantity - later quantity) * face_value,
\* and it is the same for every permutation of the rows.
C1_IntervalChangeIsRowSum ==
    IsHourly /\ ~Flagged =>
        \A i \in ComputedIntervals(headers, StartArg, EndArg) :
            LET a == PrevIdx(headers, StartArg, i)
                b == CurrIdx(headers, StartArg, i)
            IN  AllNumeric(rows, a, b) =>
                  /\ ret.val.hourly_breakdown[i].change
                        = Some(DirectDelta(rows, Len(rows), a, b))
                  /\ \A p \in Permutations(1..Len(rows)) :
                        calculate_hourly_changes(headers, Permute(rows, p),
                            TRUE, StartArg, EndArg).val.hourly_breakdown[i].change
                        = ret.val.hourly_breakdown[i].change

\* C1 witness: a computed interval over two different all-numeric rows with a
\* change that is not zero
C1_Witness ==
    /\ IsHourly /\ ~Flagged
    /\ \E i \in ComputedIntervals(headers, StartArg, EndArg) :
          /\ AllNumeric(rows, PrevIdx(headers, StartArg, i),
                        CurrIdx(headers, StartArg, i))
          /\ Len(rows) >= 2 /\ rows[1] # rows[2]
          /\ ret.val.hourly_breakdown[i].change \notin {None, Some(Fin(0))}

\* every interval of the range is computed and every cell it reads is numeric
RangeComplete ==
    /\ NumIntervals(StartArg, EndArg) >= 1
    /\ ComputedIntervals(headers, StartArg, EndArg)
          = 1..NumIntervals(StartArg, EndArg)
    /\ \A i \in 1..NumIntervals(StartArg, EndArg) :
          AllNumeric(rows, PrevIdx(headers, StartArg, i),
                     CurrIdx(headers, StartArg, i))

\* C2: over a range without a missing interval and with numeric cells only,
\* net_change (the sum of the consecutive deltas) equals the direct delta
\* between the first column used and the last column used; with one interval
\* it is that single delta.
C2_ConsecutiveDeltasTelescope ==
    IsHourly /\ ~Flagged /\ RangeComplete =>
        LET first == Nearest(headers, Target(StartArg, 0))
            last  == Nearest(headers,
                         Target(StartArg, NumIntervals(StartArg, EndArg)))
        IN  /\ ret.val.net_change
                  = DirectDelta(rows, Len(rows), first.idx, last.idx)
            /\ ret.val.start_snapshot = Some(first.header)
            /\ ret.val.end_snapshot = Some(last.header)
            /\ ret.val.hours_processed = NumIntervals(StartArg, EndArg)

\* C2 witness: two intervals over three different columns, a net change that
\* is not zero
C2_Witness ==
    /\ IsHourly /\ ~Flagged /\ RangeComplete
    /\ NumIntervals(StartArg, EndArg) >= 2
    /\ PrevIdx(headers, StartArg, 1) # CurrIdx(headers, StartArg, 1)
    /\ PrevIdx(headers, StartArg, 2) # CurrIdx(headers, StartArg, 2)
    /\ rows # <<>>
    /\ ret.val.net_change # Fin(0)

\* the net change of the call in the state, as the sum of the row sums of
\* the intervals the calculator compares
ExpectedNet(skip_blank) ==
    IF call.op = "calculate_hourly_changes"
    THEN HourlySum(headers, rows, StartArg,
                   ComputedIntervals(headers, StartArg, EndArg), skip_blank)
    ELSE PairSum(rows, SameDayPairs(MonthSnapshots(headers, StartArg, EndArg)),
                 skip_blank)

\* C3 as stated: a row with a blank quantity in either compared column, or a
\* blank face value, is skipped: it contributes nothing to net_change and is
\* not read as zero, in both calculators.
C3_BlankRowSkipped ==
    (IsHourly \/ IsMtd) /\ ~Flagged => ret.val.net_change = ExpectedNet(TRUE)

\* the cells of row r that are text but no number
GarbageCells(r) ==
    {c \in FaceValueCol..Len(rows[r]) :
        rows[r][c].k \in {"text", "nantext", "inftext"}}

\* the garbage of row r takes part in interval i
GarbageCompared(r, i) ==
    RowHasGarbage(rows[r], PrevIdx(headers, StartArg, i),
                  CurrIdx(headers, StartArg, i))

\* C4 as stated: a row with non-empty, non-numeric text in its face value or
\* in a quantity cell does not abort the computation and is excluded from
\* every interval sum in which the text takes part: each such interval's
\* change is what it is without the row, every interval of the range is
\* still processed, and when the text is the face value net_change is what
\* it is without the row.
C4_GarbageRowExcluded ==
    /\ call.op = "calculate_hourly_changes" => ret.tag # "raise"
    /\ IsHourly /\ ~Flagged =>
          \A r \in 1..Len(rows) :
              LET without == calculate_hourly_changes(headers,
                                 RemoveRow(rows, r), TRUE, StartArg, EndArg).val
              IN  GarbageCells(r) # {} =>
                    /\ ret.val.hours_processed = without.hours_processed
                    /\ \A i \in ComputedIntervals(headers, StartArg, EndArg) :
                          GarbageCompared(r, i) =>
                             ret.val.hourly_breakdown[i].change
                                = without.hourly_breakdown[i].change
                    /\ FaceValueCol \in GarbageCells(r) =>
                          ret.val.net_change = without.net_change

\* the snapshot columns usable for the range of the call in the state
UsableColumns ==
    IF call.op = "calculate_hourly_changes"
    THEN UNION {Near(headers, Target(StartArg, k)) :
                   k \in 0..NumIntervals(StartArg, EndArg)}
    ELSE MonthSnapshots(headers, StartArg, EndArg)

\* C5 as stated: with fewer than 2 usable snapshot columns for the range
\* both calculators return a result flagged as an error, never an unflagged
\* result (with net_change 0).
C5_InsufficientDataFlagged ==
    (IsHourly \/ IsMtd) /\ Cardinality(UsableColumns) < 2 => Flagged

\* C6: every hourly interval with an endpoint that has no snapshot within
\* the tolerance is recorded with missing = True and change = None, adds
\* nothing to net_change or hours_processed, and the intervals after it are
\* still computed.
C6_MissingIntervalRecorded ==
    IsHourly /\ ~Flagged =>
        LET n == NumIntervals(StartArg, EndArg)
            computed == ComputedIntervals(headers, StartArg, EndArg)
            bd == ret.val.hourly_breakdown
        IN  /\ Len(bd) = n
            /\ \A i \in 1..n :
                  IF i \in computed
                  THEN ~bd[i].missing /\ bd[i].change # None
                  ELSE bd[i] = [prev_time |-> FormatHour(Target(StartArg, i - 1)),
                                curr_time |-> FormatHour(Target(StartArg, i)),
                                change |-> None, missing |-> TRUE]
            /\ ret.val.hours_processed = Cardinality(computed)
            /\ ret.val.net_change
                  = HourlySum(headers, rows, StartArg, computed, FALSE)

\* C6 witness: a missing interval followed by a computed one with a change
\* that is not zero
C6_Witness ==
    /\ IsHourly /\ ~Flagged
    /\ \E i, j \in 1..NumIntervals(StartArg, EndArg) :
          /\ i < j
          /\ IntervalMissing(headers, StartArg, i)
          /\ ~IntervalMissing(headers, StartArg, j)
          /\ ret.val.hourly_breakdown[i].missing
          /\ ret.val.hourly_breakdown[j].change \notin {None, Some(Fin(0))}

\* ------------------------------------------------------------------------
\* SpecAlerts: calls of the alert path on 2025-11-02, the sheet at rest
\* ------------------------------------------------------------------------
\* the sheets of SpecAlerts: no snapshot, one snapshot, the hours around
\* 11:00 and around 18:00, two days, a snapshot of the previous month only,
\* and a header whose digit group is no date
AlertHeaderRows ==
    {<<>>,
     <<DataHeader(2025, 11, 2, 11, 0)>>,
     <<DataHeader(2025, 11, 2, 10, 0), DataHeader(2025, 11, 2, 11, 0)>>,
     <<DataHeader(2025, 11, 1, 11, 0), DataHeader(2025, 11, 1, 12, 0),
       DataHeader(2025, 11, 2, 10, 0), DataHeader(2025, 11, 2, 11, 0)>>,
     <<DataHeader(2025, 11, 2, 17, 0), DataHeader(2025, 11, 2, 18, 0)>>,
     <<DataHeader(2025, 10, 31, 11, 0)>>,
     <<DataHeader(2025, 11, 2, 10, 0), DataHeader(2025, 11, 31, 11, 0)>>}

\* the times of day of the invocations of run_scheduled_alerts, as
\* <<hour, minute>>; 10:59 and 21:59 are a minute before the hour changes
AlertTimes ==
    {<<10, 29>>, <<10, 30>>, <<10, 59>>, <<11, 30>>, <<11, 31>>, <<12, 0>>,
     <<17, 30>>, <<18, 30>>, <<18, 31>>,
     <<21, 5>>, <<21, 10>>, <<21, 40>>, <<21, 45>>, <<21, 59>>, <<22, 0>>}

\* 2025-11-02 00:00
AlertDay == T0 + 1440 - 600

\* what send_slack_alert is handed when called on its own: a result with an
\* 'error' key, a result with a negative net_change, one with a nan
SlackInputs ==
    {FetchError}
    \cup {[HourlyResult(HourlyStart, AlertDay, AlertDay + 60)
              EXCEPT !.net_change = x] : x \in {Fin(-5), NaN}}

InitAlerts ==
    /\ \E hs \in AlertHeaderRows :
          /\ headers = BaseHeaders \o hs
          /\ rows = SheetRows(1, 2, Len(BaseHeaders) + Len(hs), NoDefect)
    /\ now = AlertDay
    /\ AtRest

\* one invocation of main(): the clock has moved on to t, run_scheduled_alerts
\* reads it and calls the send_* methods of the window
RunScheduledAlerts ==
    /\ frame.pc = "idle"
    /\ runs < MaxInvocations
    /\ \E hm \in AlertTimes :
          \E t \in {ReplaceTime(AlertDay, hm[1], hm[2])} :
             /\ t >= now
             /\ now' = t
             /\ StartSends("run_scheduled_alerts", t, run_scheduled_alerts(t))
    /\ runs' = runs + 1
    /\ SheetLeftBy(AlertOnSheet("idle"))
    /\ UNCHANGED <<posts, scraper, ticks>>

\* send_24hr_11am_alert called on its own
Send24hr11amAlert ==
    /\ frame.pc = "idle"
    /\ runs < MaxInvocations
    /\ StartSends("send_24hr_11am_alert", now, <<"send_24hr_11am_alert">>)
    /\ runs' = runs + 1
    /\ SheetLeftBy(AlertOnSheet("idle"))
    /\ UNCHANGED <<now, posts, scraper, ticks>>

\* send_24hr_6pm_alert called on its own
Send24hr6pmAlert ==
    /\ frame.pc = "idle"
    /\ runs < MaxInvocations
    /\ StartSends("send_24hr_6pm_alert", now, <<"send_24hr_6pm_alert">>)
    /\ runs' = runs + 1
    /\ SheetLeftBy(AlertOnSheet("idle"))
    /\ UNCHANGED <<now, posts, scraper, ticks>>

\* send_mtd_alert called on its own
SendMtdAlert ==
    /\ frame.pc = "idle"
    /\ runs < MaxInvocations
    /\ StartSends("send_mtd_alert", now, <<"send_mtd_alert">>)
    /\ runs' = runs + 1
    /\ SheetLeftBy(AlertOnSheet("idle"))
    /\ UNCHANGED <<now, posts, scraper, ticks>>

\* send_slack_alert called on its own
SendSlackAlert ==
    /\ frame.pc = "idle"
    /\ runs < MaxInvocations
    /\ \E change_data \in SlackInputs, is_mtd \in BOOLEAN :
          /\ call' = Call("send_slack_alert",
                          <<now, Len(posts), change_data, is_mtd>>)
          /\ posts' = send_slack_alert(posts, Title("Test Alert", None),
                                       change_data, is_mtd, now)
    /\ ret' = Returned(None)
    /\ runs' = runs + 1
    /\ SheetLeftBy(AlertOnSheet("post"))
    /\ UNCHANGED <<now, frame, scraper, ticks>>

\* a minute passes
Tick == ClockAdvances(1)

NextAlerts ==
    \/ RunScheduledAlerts
    \/ Send24hr11amAlert \/ Send24hr6pmAlert \/ SendMtdAlert \/ SendSlackAlert
    \/ SendReadClock
    \/ FetchAllValues \/ FindPrevColumn \/ FindCurrColumn
    \/ MtdReadClock \/ MtdGetDataColumns \/ MtdFetchAllValues
    \/ PostAlert
    \/ Tick
SpecAlerts == InitAlerts /\ [][NextAlerts]_vars

\* the state after an invocation of run_scheduled_alerts; the time its
\* dispatch read
IsRun == call.op = "run_scheduled_alerts" /\ ret # NoRet
RunTime == call.args[1]

\* the POSTs of the call in the state
Posted == SubSeq(posts, call.args[2] + 1, Len(posts))

\* the text of the title an alert posts under
AlertTitle(name) ==
    IF name = "send_24hr_11am_alert" THEN "24hr Volume Change (11 AM - 11 AM)"
    ELSE IF name = "send_24hr_6pm_alert" THEN "24hr Volume Change (6 PM - 6 PM)"
    ELSE "Month-to-Date Cumulative Volume (as of )"

PostedFor(name) ==
    {i \in 1..Len(Posted) : Posted[i].title.text = AlertTitle(name)}

\* the snapshot columns usable for the range of an alert started at time t
AlertUsable(name, t) ==
    IF name = "send_mtd_alert"
    THEN MonthSnapshots(headers, t, ReplaceTime(t, 23, 59))
    ELSE LET end_time ==
                 ReplaceTime(t, IF name = "send_24hr_11am_alert" THEN 11 ELSE 18, 0)
         IN  UNION {Near(headers, Target(end_time - 1440, k)) : k \in 0..24}

\* the minute of the day of a time
MinuteOfDay(t) == FromMinutes(t).h * 60 + FromMinutes(t).mi

\* the windows as the specification states them, bounds inclusive
InStatedWindow(t) ==
    \/ MinuteOfDay(t) \in (10 * 60 + 30)..(11 * 60 + 30)
    \/ MinuteOfDay(t) \in (17 * 60 + 30)..(18 * 60 + 30)
    \/ MinuteOfDay(t) \in (21 * 60 + 10)..(21 * 60 + 40)

\* C7 as stated: a computation of the invocation that ends in
\* DataUnavailable (fewer than 2 usable snapshot columns for its range, so
\* that no interval has both endpoints matched) or in a sheet-fetch failure
\* is followed by no webhook POST for that computation.
C7_NoPostWithoutData ==
    IsRun =>
        \A k \in 1..Len(ret.val.ran) :
            LET name == ret.val.ran[k]
                res == ret.val.results[k]
            IN  (\/ res.tag = "ok" /\ res.val = FetchError
                 \/ Cardinality(AlertUsable(name, RunTime)) < 2)
                => PostedFor(name) = {}

\* C10 as stated: an invocation at a time outside 10:30-11:30, 17:30-18:30
\* and 21:10-21:40 runs no alert computation and POSTs nothing.
C10_NoWorkOutsideWindows ==
    IsRun /\ ~InStatedWindow(RunTime) =>
        ret.val.ran = <<>> /\ Posted = <<>>

\* C11 as stated: an invocation at a time from 10:30 to 11:30 runs the
\* 11 AM alert and then the month-to-date alert and no other; one at a time
\* from 17:30 to 18:30 runs exactly the 6 PM alert; one at 12:00 runs none.
C11_WindowAlerts ==
    IsRun =>
        /\ MinuteOfDay(RunTime) \in (10 * 60 + 30)..(11 * 60 + 30)
              => ret.val.ran = <<"send_24hr_11am_alert", "send_mtd_alert">>
        /\ MinuteOfDay(RunTime) \in (17 * 60 + 30)..(18 * 60 + 30)
              => ret.val.ran = <<"send_24hr_6pm_alert">>
        /\ MinuteOfDay(RunTime) = 12 * 60 => ret.val.ran = <<>>

\* C12 as stated: the alerts an invocation runs depend only on the hour and
\* minute: every invocation, the first or a later one, runs the full set of
\* alerts of the window its time lies in.
C12_NoLastRunState ==
    IsRun => ret.val.ran = run_scheduled_alerts(RunTime)

\* C13: no invocation of the alert path (run_scheduled_alerts, the send_*
\* methods, both calculators, find_closest_data_column, get_data_columns)
\* changes a cell of the sheet: the sheet after every step is the sheet
\* before it.
C13_AlertsLeaveSheetUnchanged ==
    [][headers' = headers /\ rows' = rows]_vars

\* C13 witness: two invocations have run alerts over a sheet with snapshot
\* columns and have POSTed
C13_Witness ==
    /\ IsRun /\ runs = 2
    /\ Len(ret.val.ran) = 2
    /\ Posted # <<>> /\ Len(posts) > Len(Posted)
    /\ SnapshotColumns(headers) # {}
    /\ rows # <<>>

\* ------------------------------------------------------------------------
\* Scraper: the sheet as run_scraping_job reads it
\* ------------------------------------------------------------------------
\* str(row[0]).strip().lower() of a column-A cell: the lower-cased name of
\* a text cell; a cell that is not text gives a string no bond is named by
NameKey(cell) == IF cell.k = "text" THEN Lower(cell.v) ELSE 1000

\* the URL a column-B cell yields: the first argument of a HYPERLINK
\* formula, or the cell itself when it starts with 'http'; None otherwise
UrlOf(cell) ==
    IF cell.k = "link" THEN Some(cell.v \div 100)
    ELSE IF cell.k = "url" THEN Some(cell.v)
    ELSE None

\* get_existing_bonds: the lower-cased names and the URLs of columns A and
\* B (a name of whitespace only is left out); two empty sets when the read
\* fails
get_existing_bonds(sheet, read_ok) ==
    IF ~read_ok THEN [names |-> {}, urls |-> {}]
    ELSE LET all_data == RowsAB(sheet)
         IN  [names |-> {NameKey(all_data[i][1]) :
                            i \in {j \in 1..Len(all_data) :
                                      /\ Truthy(all_data[j][1])
                                      /\ all_data[j][1].k # "space"}},
              urls |-> {Val(UrlOf(all_data[i][2])) :
                           i \in {j \in 1..Len(all_data) :
                                     ~IsNone(UrlOf(all_data[j][2]))}}]

\* a homepage link: href 0 stands for a link without '/bonds/' in its href
Link(href, name) == [href |-> href, name |-> name]

\* the loop of scrape_homepage_for_new_bonds over the links
RECURSIVE HomepageLoop(_, _, _, _)
HomepageLoop(bond_links, existing_names, existing_urls, new_bonds) ==
    IF bond_links = <<>> THEN new_bonds
    ELSE LET link == Head(bond_links)
             is_duplicate_url == link.href \in existing_urls
             is_duplicate_name == Lower(link.name) \in existing_names
         IN  IF link.href = 0 \/ is_duplicate_url \/ is_duplicate_name
             THEN HomepageLoop(Tail(bond_links), existing_names,
                               existing_urls, new_bonds)
             ELSE HomepageLoop(Tail(bond_links),
                               existing_names \cup {Lower(link.name)},
                               existing_urls \cup {link.href},
                               Append(new_bonds,
                                      [name |-> link.name, url |-> link.href]))

\* scrape_homepage_for_new_bonds: no bond when loading the page fails
scrape_homepage_for_new_bonds(bond_links, page_ok, existing) ==
    IF ~page_ok THEN <<>>
    ELSE HomepageLoop(bond_links, existing.names, existing.urls, <<>>)

\* worksheet.col_values(c), each value as `value.strip()` tests it: for the
\* rows 1.. down to the last with a value in column c, whether the value
\* holds a character that is not whitespace
ColStripped(sheet, c) ==
    [r \in 1..ColLen(sheet, c) |->
        IF r = 1 THEN NonBlank(HeaderAt(sheet, c))
        ELSE CellAt(sheet, r, c).k \notin {"blank", "space"}]

\* the while loop of get_last_data_row
RECURSIVE LastRowLoop(_, _, _)
LastRowLoop(col_a_values, col_b_values, last_row) ==
    IF last_row > 1
       /\ ~(\/ (last_row <= Len(col_a_values) /\ col_a_values[last_row])
            \/ (last_row <= Len(col_b_values) /\ col_b_values[last_row]))
    THEN LastRowLoop(col_a_values, col_b_values, last_row - 1)
    ELSE last_row

\* get_last_data_row from its two reads on
get_last_data_row(col_a_values, col_b_values) ==
    LastRowLoop(col_a_values, col_b_values,
                IF Len(col_a_values) > Len(col_b_values)
                THEN Len(col_a_values) ELSE Len(col_b_values))

\* get_urls_from_sheet up to its second read: the rows of A2:B with a URL
\* in column B, in order
get_urls_from_sheet(sheet) ==
    LET all_data == RowsAB(sheet)
        RECURSIVE Collect(_)
        Collect(index) ==
            IF index > Len(all_data) THEN <<>>
            ELSE IF IsNone(UrlOf(all_data[index][2])) THEN Collect(index + 1)
            ELSE <<[row |-> index + 1,
                    url |-> Val(UrlOf(all_data[index][2]))]>>
                 \o Collect(index + 1)
    IN  Collect(1)

\* len([h for h in header_row if h and h.strip()])
NonBlankHeaders(hs) == Cardinality({c \in 1..Len(hs) : NonBlank(hs[c])})

\* max_value if max_value is not None else ""
ValueToWrite(max_value) ==
    IF IsNone(max_value) THEN Blank ELSE Num(Val(max_value))

\* [i for i, h in enumerate(updated_header_row, 1)
\*    if h and h.startswith("Data (")]
IsDataColumnHeader(h) ==
    StartsWith(Leading(h), <<"D", "a", "t", "a", " ", "(">>)
DataColumnIndices(hs) == {c \in 1..Len(hs) : IsDataColumnHeader(hs[c])}

\* one entry of diff_values: (prev - curr) * face, or "" when float()
\* rejects one of the three
DiffValue(prev, curr, face_val) ==
    IF ToFloat(prev).tag = "raise" \/ ToFloat(curr).tag = "raise"
       \/ ToFloat(face_val).tag = "raise"
    THEN Blank
    ELSE FloatCell(FMul(FSub(ToFloat(prev).val, ToFloat(curr).val),
                        ToFloat(face_val).val))

\* diff_values: zip stops at the shortest of the three columns
DiffValues(prev_values, curr_values, face_values) ==
    [i \in 1..Min2(Len(prev_values),
                   Min2(Len(curr_values), Len(face_values))) |->
        DiffValue(prev_values[i], curr_values[i], face_values[i])]

\* ------------------------------------------------------------------------
\* Scraper: run_scraping_job, one worksheet call or clock read at a time
\* ------------------------------------------------------------------------
\* the local variables of a run: where it stands (pc, the line of the call
\* it makes next; "end" once it has left the method), what the homepage
\* shows, what scrape_max_value gives for each URL, the fault of the run
\* (the name of a method whose sheet or page access fails inside its own
\* handler, or the line of a worksheet call of run_scraping_job that raises;
\* "none" for a run without a fault), the sheet as it was when the run
\* began, how the run left the try block ("run" while it has not), the calls
\* of driver.quit, the cells it has written, and the locals of the method
JobStart(sheet, bond_links, fault, scraped) ==
    [pc |-> "86", links |-> bond_links, fault |-> fault, scraped |-> scraped,
     before |-> sheet, exit |-> "run", driver_quits |-> 0, writes |-> <<>>,
     new_bonds |-> <<>>, col_a_values |-> <<>>, next_row |-> 0, i |-> 0,
     url_infos |-> <<>>, data_col |-> 0, timestamp |-> 0,
     prev_data_col |-> 0, curr_data_col |-> 0, diff_col |-> 0,
     prev_values |-> <<>>, curr_values |-> <<>>, diff_values |-> <<>>,
     data_end_row |-> 0]

\* the finally clause with driver.quit() left out when the run raised
FinallyOnlyOnReturn(job) ==
    [job EXCEPT !.driver_quits = IF job.exit = "raise" THEN @ ELSE @ + 1]

\* the finally clause of run_scraping_job: self.driver, set by the
\* constructor, is closed however the try block ended
Finally(job) == [job EXCEPT !.driver_quits = @ + 1]

\* a step of a run: the run and the sheet as the step leaves them
Step(job, sheet) == [job |-> job, sheet |-> sheet]

\* the run goes on to the call at line pc
Goto(job, pc) == [job EXCEPT !.pc = pc]

\* the run leaves the try block, by an exception ("raise"), by the early
\* return ("return") or at its end ("done"), and the finally clause runs
Exit(job, how) == Finally([job EXCEPT !.exit = how, !.pc = "end"])

\* worksheet.update_cell(row, col, value) at the given line, the run going
\* on to the call at line pc. The call raises, and writes nothing, when the
\* request fails or when the cell has no label: rows and columns count
\* from 1
ApiWrite(job, sheet, line, what, row, col, value, pc) ==
    IF job.fault = line \/ row < 1 \/ col < 1
    THEN Step(Exit(job, "raise"), sheet)
    ELSE Step([job EXCEPT
                 !.pc = pc,
                 !.writes = Append(@, [what |-> what, row |-> row,
                                       col |-> col])],
              update_cell(sheet, row, col, value))

\* get_existing_bonds (its read of A2:B) and scrape_homepage_for_new_bonds
ReadExistingBonds(job, sheet) ==
    LET existing == get_existing_bonds(sheet,
                                       job.fault # "get_existing_bonds")
        new_bonds == scrape_homepage_for_new_bonds(
                         job.links,
                         job.fault # "scrape_homepage_for_new_bonds",
                         existing)
    IN  Step([job EXCEPT !.new_bonds = new_bonds,
                         !.pc = IF new_bonds = <<>> THEN "212" ELSE "187"],
             sheet)

\* get_last_data_row reads column A; it returns 1 when a read fails
ReadColumnA(job, sheet) ==
    IF job.fault = "get_last_data_row"
    THEN Step([job EXCEPT !.next_row = 2, !.i = 0, !.pc = "312"], sheet)
    ELSE Step([job EXCEPT !.col_a_values = ColStripped(sheet, 1),
                          !.pc = "188"],
              sheet)

\* get_last_data_row reads column B and returns; next_row = last_row + 1
ReadColumnB(job, sheet) ==
    Step([job EXCEPT
            !.next_row = get_last_data_row(job.col_a_values,
                                           ColStripped(sheet, 2)) + 1,
            !.i = 0, !.pc = "312"],
         sheet)

\* the name of new bond i (0-based) goes into column A
WriteBondName(job, sheet) ==
    ApiWrite(job, sheet, "312", "name", job.next_row + job.i, 1,
             NameCell(job.new_bonds[job.i + 1].name), "316")

\* its HYPERLINK formula goes into column B; the loop goes on or ends
WriteBondLink(job, sheet) ==
    ApiWrite([job EXCEPT !.i = @ + 1], sheet, "316", "url",
             job.next_row + job.i, 2,
             LinkCell(job.new_bonds[job.i + 1].url,
                      job.new_bonds[job.i + 1].name),
             IF job.i + 1 < Len(job.new_bonds) THEN "312" ELSE "212")

\* get_urls_from_sheet reads A2:B; when the read fails it returns no URL and
\* run_scraping_job returns
ReadUrls(job, sheet) ==
    IF job.fault = "get_urls_from_sheet" THEN Step(Exit(job, "return"), sheet)
    ELSE Step([job EXCEPT !.url_infos = get_urls_from_sheet(sheet),
                          !.pc = "246"],
              sheet)

\* get_urls_from_sheet reads column B to compare the counts and returns;
\* run_scraping_job returns when there is no URL
CountColumnB(job, sheet) ==
    IF job.url_infos = <<>> THEN Step(Exit(job, "return"), sheet)
    ELSE Step(Goto(job, "334"), sheet)

\* header_row = worksheet.row_values(1); next_data_col_index
ReadHeaderRow(job, sheet) ==
    IF job.fault = "334" THEN Step(Exit(job, "raise"), sheet)
    ELSE Step([job EXCEPT !.data_col = NonBlankHeaders(sheet.headers) + 1,
                          !.pc = "338"],
              sheet)

\* timestamp_str = datetime.now(ist_tz).strftime("%Y-%m-%d %H:%M"), the
\* clock reading t
ReadClock(job, sheet, t) ==
    Step([job EXCEPT !.timestamp = t, !.pc = "340"], sheet)

\* the header of the new snapshot column
WriteDataHeader(job, sheet) ==
    LET c == FromMinutes(job.timestamp)
    IN  ApiWrite([job EXCEPT !.i = 0], sheet, "340", "header", 1,
                 job.data_col, DataHeader(c.y, c.mo, c.d, c.h, c.mi), "347")

\* scrape_max_value for URL i (0-based) of url_infos and the write of what
\* it gave; the loop goes on or ends
WriteValue(job, sheet) ==
    ApiWrite([job EXCEPT !.i = @ + 1], sheet, "347", "value",
             job.url_infos[job.i + 1].row, job.data_col,
             ValueToWrite(job.scraped[job.url_infos[job.i + 1].url]),
             IF job.i + 1 < Len(job.url_infos) THEN "347" ELSE "351")

\* updated_header_row = worksheet.row_values(1); the data columns; with
\* fewer than two of them the run is done
ReadUpdatedHeaderRow(job, sheet) ==
    LET data_columns == DataColumnIndices(sheet.headers)
    IN  IF job.fault = "351" THEN Step(Exit(job, "raise"), sheet)
        ELSE IF Cardinality(data_columns) < 2 THEN Step(Exit(job, "done"), sheet)
        ELSE Step([job EXCEPT
                     !.curr_data_col = MaxOf(data_columns),
                     !.prev_data_col =
                         MaxOf(data_columns \ {MaxOf(data_columns)}),
                     !.pc = "363"],
                  sheet)

\* all_headers = worksheet.row_values(1); diff_col_index
ReadAllHeaders(job, sheet) ==
    IF job.fault = "363" THEN Step(Exit(job, "raise"), sheet)
    ELSE Step([job EXCEPT !.diff_col = NonBlankHeaders(sheet.headers) + 1,
                          !.pc = "367"],
              sheet)

\* prev_values_str = worksheet.col_values(prev_data_col, ...)[1:]
ReadPrevValues(job, sheet) ==
    IF job.fault = "367" THEN Step(Exit(job, "raise"), sheet)
    ELSE Step([job EXCEPT
                 !.prev_values = ColValuesBelowHeader(sheet, job.prev_data_col),
                 !.pc = "368"],
              sheet)

\* curr_values_str = worksheet.col_values(curr_data_col, ...)[1:]
ReadCurrValues(job, sheet) ==
    IF job.fault = "368" THEN Step(Exit(job, "raise"), sheet)
    ELSE Step([job EXCEPT
                 !.curr_values = ColValuesBelowHeader(sheet, job.curr_data_col),
                 !.pc = "369"],
              sheet)

\* face_values_str = worksheet.col_values(3, ...)[1:] and the loop that
\* fills diff_values
ReadFaceValues(job, sheet) ==
    IF job.fault = "369" THEN Step(Exit(job, "raise"), sheet)
    ELSE Step([job EXCEPT
                 !.diff_values =
                     DiffValues(job.prev_values, job.curr_values,
                                ColValuesBelowHeader(sheet, FaceValueCol)),
                 !.pc = "386"],
              sheet)

\* the header of the 'Hourly Change' column, with the timestamp of the
\* snapshot column
WriteDiffHeader(job, sheet) ==
    LET c == FromMinutes(job.timestamp)
    IN  ApiWrite(job, sheet, "386", "diff_header", 1, job.diff_col,
                 HourlyChangeHeader(c.y, c.mo, c.d, c.h, c.mi),
                 IF job.diff_values # <<>> THEN "388" ELSE "392")

\* whether the request of worksheet.update can carry the values: its JSON
\* body holds no nan and no infinity, the call raises before anything is
\* sent
Serializable(values) ==
    \A i \in 1..Len(values) : values[i].k \notin {"nannum", "infnum"}

\* worksheet.update(diff_values, '<column>2'): one call that writes the
\* values into the column from row 2 down, or raises and writes nothing
WriteColumn(job, sheet) ==
    IF job.fault = "388" \/ ~Serializable(job.diff_values)
    THEN Step(Exit(job, "raise"), sheet)
    ELSE Step([job EXCEPT
                 !.pc = "392",
                 !.writes = @ \o [i \in 1..Len(job.diff_values) |->
                                     [what |-> "diff", row |-> i + 1,
                                      col |-> job.diff_col]]],
              ApplyWrites(sheet,
                          [i \in 1..Len(job.diff_values) |->
                              [row |-> i + 1, col |-> job.diff_col,
                               value |-> job.diff_values[i]]]))

\* all_values_in_col_a = worksheet.col_values(1); data_end_row
ReadColumnAForTotal(job, sheet) ==
    IF job.fault = "392" THEN Step(Exit(job, "raise"), sheet)
    ELSE Step([job EXCEPT !.data_end_row = ColLen(sheet, 1), !.pc = "397"],
              sheet)

\* the SUM formula two rows below the last row of column A
WriteSumFormula(job, sheet) ==
    ApiWrite(job, sheet, "397", "sum", job.data_end_row + 2, job.diff_col,
             SumFormula(job.data_end_row), "398")

\* its label 'TOTAL:' in the column before, a call that raises when the
\* formula stands in column 1; the try block ends
WriteTotalLabel(job, sheet) ==
    LET r == ApiWrite(job, sheet, "398", "total", job.data_end_row + 2,
                      job.diff_col - 1, TotalLabel, "end")
    IN  IF r.job.exit = "run" THEN Step(Exit(r.job, "done"), r.sheet) ELSE r

\* the next call of a run that has not ended, on the sheet as it stands and
\* with the clock reading t
JobStep(job, sheet, t) ==
    CASE job.pc = "86" -> ReadExistingBonds(job, sheet)
      [] job.pc = "187" -> ReadColumnA(job, sheet)
      [] job.pc = "188" -> ReadColumnB(job, sheet)
      [] job.pc = "312" -> WriteBondName(job, sheet)
      [] job.pc = "316" -> WriteBondLink(job, sheet)
      [] job.pc = "212" -> ReadUrls(job, sheet)
      [] job.pc = "246" -> CountColumnB(job, sheet)
      [] job.pc = "334" -> ReadHeaderRow(job, sheet)
      [] job.pc = "338" -> ReadClock(job, sheet, t)
      [] job.pc = "340" -> WriteDataHeader(job, sheet)
      [] job.pc = "347" -> WriteValue(job, sheet)
      [] job.pc = "351" -> ReadUpdatedHeaderRow(job, sheet)
      [] job.pc = "363" -> ReadAllHeaders(job, sheet)
      [] job.pc = "367" -> ReadPrevValues(job, sheet)
      [] job.pc = "368" -> ReadCurrValues(job, sheet)
      [] job.pc = "369" -> ReadFaceValues(job, sheet)
      [] job.pc = "386" -> WriteDiffHeader(job, sheet)
      [] job.pc = "388" -> WriteColumn(job, sheet)
      [] job.pc = "392" -> ReadColumnAForTotal(job, sheet)
      [] job.pc = "397" -> WriteSumFormula(job, sheet)
      [] job.pc = "398" -> WriteTotalLabel(job, sheet)

\* a run from where it stands to its end, on a sheet nothing else writes
\* and with the clock reading t
RECURSIVE RunToEnd(_, _, _)
RunToEnd(job, sheet, t) ==
    IF job.pc = "end" THEN Step(job, sheet)
    ELSE \* one evaluation of the step
         LET next == Only({JobStep(job, sheet, t)})
         IN  RunToEnd(next.job, next.sheet, t)

\* run_scraping_job at time t on a sheet nothing else writes, with the
\* homepage showing bond_links, scrape_max_value giving scraped[url], and
\* the fault of the run
run_scraping_job(sheet, bond_links, fault, scraped, t) ==
    RunToEnd(JobStart(sheet, bond_links, fault, scraped), sheet, t)

\* the next call of a run under way: it reads or writes the sheet as the
\* other processes have left it
ScraperStep ==
    /\ \E j \in 1..Len(scraper) :
          /\ scraper[j].pc # "end"
          /\ \E next \in {JobStep(scraper[j], Sheet(headers, rows), now)} :
                /\ scraper' = [scraper EXCEPT ![j] = next.job]
                /\ headers' = next.sheet.headers
                /\ rows' = next.sheet.rows
    /\ UNCHANGED <<now, call, ret, posts, runs, frame, ticks>>

\* the runs of the state that have ended and those under way
EndedJobs == {j \in 1..Len(scraper) : scraper[j].pc = "end"}
ActiveJobs == {j \in 1..Len(scraper) : scraper[j].pc # "end"}

\* ------------------------------------------------------------------------
\* SpecScrape: a run of run_scraping_job at 2025-11-01 11:00 or an hour
\* later, one worksheet call at a time
\* ------------------------------------------------------------------------
\* the bonds of a sheet of SpecScrape, as the cells of columns A and B:
\* one, two, one followed by a name without a URL, one followed by a row
\* with a space for a name, and a row named 'TOTAL:'
OneBond == <<<<NameCell(1), LinkCell(1, 1)>>>>
TwoBonds == <<<<NameCell(1), LinkCell(1, 1)>>, <<NameCell(2), UrlCell(2)>>>>
BondAndName == <<<<NameCell(1), LinkCell(1, 1)>>, <<NameCell(2), Blank>>>>
BondAndSpace == <<<<NameCell(1), LinkCell(1, 1)>>, <<SpaceText, Blank>>>>
TotalRow == <<<<TotalLabel, UrlCell(2)>>>>

\* what the last cell of the last snapshot column may hold instead of a
\* number: the text '12', the text 'nan', a SUM formula over the rows above
OddCells(n) == {Some(NumText(12)), Some(NanText), Some(SumFormula(n))}

\* the rows of a sheet: name, URL, face value, a number under every header
\* after them and nothing under a blank header
ScrapeRows(hs, bonds, odd) ==
    [r \in 1..Len(bonds) |->
        [c \in 1..Len(hs) |->
            IF c <= 2 THEN bonds[r][c]
            ELSE IF c = FaceValueCol THEN Num(r + 1)
            ELSE IF ~NonBlank(hs[c]) THEN Blank
            ELSE IF r = Len(bonds) /\ c = Len(hs) /\ ~IsNone(odd) THEN Val(odd)
            ELSE Num((2 * r + c) % 5)]]

\* the header rows of SpecScrape with the bonds under them: no snapshot
\* yet, without a bond and with one; one snapshot; a blank header cell, or one holding a tab, before the
\* snapshot; two snapshots; 'Data (latest)' before the snapshot
OneSnapshot == BaseHeaders \o <<DataHeader(2025, 11, 1, 10, 0)>>
ScrapeLayouts ==
    {<<BaseHeaders, <<>>>>,
     <<BaseHeaders, OneBond>>,
     <<OneSnapshot, OneBond>>,
     <<OneSnapshot, TwoBonds>>,
     <<OneSnapshot, BondAndName>>,
     <<OneSnapshot, BondAndSpace>>,
     <<OneSnapshot, TotalRow>>,
     <<BaseHeaders \o <<EmptyHeader, DataHeader(2025, 11, 1, 10, 0)>>,
       OneBond>>,
     <<BaseHeaders \o <<Header(<<"\t">>, NoStamp),
                        DataHeader(2025, 11, 1, 10, 0)>>, TwoBonds>>,
     <<BaseHeaders \o <<DataHeader(2025, 11, 1, 9, 0),
                        DataHeader(2025, 11, 1, 10, 0)>>, TwoBonds>>,
     <<BaseHeaders \o <<Header(<<"D", "a", "t", "a", " ", "(", "l", "a", "t",
                                 "e", "s", "t", ")">>, NoStamp),
                        DataHeader(2025, 11, 1, 10, 0)>>, OneBond>>}

\* the sheets of SpecScrape: a sheet without anything, the layouts, and the
\* two-bond sheet with one snapshot, its last cell odd
ScrapeSheets ==
    {Sheet(<<>>, <<>>)}
    \cup {Sheet(l[1], ScrapeRows(l[1], l[2], None)) : l \in ScrapeLayouts}
    \cup {Sheet(OneSnapshot, ScrapeRows(OneSnapshot, TwoBonds, odd)) :
             odd \in OddCells(MaxRows)}

\* what the homepage shows: nothing; a bond of the sheet under its name in
\* capitals and a new bond; a new bond twice, under two names, a link that
\* is no bond and a bond without a name; a bond without a name, 'BOND 9'
\* and 'bond 8', names that differ from 'Unknown Bond' and 'TOTAL:'
Homepages ==
    {<<>>,
     <<Link(1, 11), Link(3, 3)>>,
     <<Link(3, 3), Link(3, 4), Link(0, 5), Link(4, UnknownBond)>>,
     <<Link(3, UnknownBond), Link(4, 19), Link(1, 8)>>}

\* the URLs of SpecScrape and what scrape_max_value gives for them
Urls == 1..4
ScrapedPool ==
    {[u \in Urls |-> Some(u + 1)],
     [u \in Urls |-> IF u = 1 THEN None ELSE Some(0)]}

\* the methods that catch a failure of their own sheet or page access, and
\* the lines of the worksheet calls of run_scraping_job, which do not
GuardedFaults ==
    {"get_existing_bonds", "scrape_homepage_for_new_bonds",
     "get_last_data_row", "get_urls_from_sheet"}
RaisingLines ==
    {"312", "316", "334", "340", "347", "351", "363", "367", "368", "369",
     "386", "388", "392", "397", "398"}

\* the inputs of a run of SpecScrape: without a fault every homepage and
\* either scrape; with a fault the second homepage
JobInputs ==
    {[links |-> l, fault |-> "none", scraped |-> sc] :
        l \in Homepages, sc \in ScrapedPool}
    \cup
    {[links |-> <<Link(1, 11), Link(3, 3)>>, fault |-> f,
      scraped |-> [u \in Urls |-> Some(u + 1)]] :
        f \in GuardedFaults \cup RaisingLines}

\* the inputs of a run of SpecRuns and of SpecOverlap: no fault, the
\* homepage showing nothing or a bond of the sheet and a new bond
OverlapJobInputs ==
    {[links |-> l, fault |-> "none", scraped |-> [u \in Urls |-> Some(u + 1)]] :
        l \in {<<>>, <<Link(1, 11), Link(3, 3)>>}}

InitScrape ==
    /\ \E sheet \in ScrapeSheets :
          headers = sheet.headers /\ rows = sheet.rows
    /\ now = T0 + 60
    /\ AtRest

\* main() is started: a new scraper with a new driver begins
\* run_scraping_job, with inputs of the pool, unless as many runs as the
\* bound have begun; nothing keeps a run from beginning while another is
\* under way
BeginJob(inputs, bound) ==
    /\ Len(scraper) < bound
    /\ \E in \in inputs :
          scraper' = Append(scraper,
                            JobStart(Sheet(headers, rows), in.links, in.fault,
                                     in.scraped))
    /\ UNCHANGED <<headers, rows, now, call, ret, posts, runs, frame, ticks>>

RunScrapingJob == BeginJob(JobInputs, MaxJobs)

\* an hour passes before a clock read
HourPasses == ClockAdvances(60)

NextScrape == RunScrapingJob \/ ScraperStep \/ HourPasses
SpecScrape == InitScrape /\ [][NextScrape]_vars

\* ------------------------------------------------------------------------
\* SpecRuns: runs of run_scraping_job that follow each other or overlap
\* ------------------------------------------------------------------------
\* main() is started by a trigger outside the program and nothing locks the
\* sheet: a run may begin when the run before it has ended, or while it is
\* between two of its worksheet calls
RunsSheets ==
    {Sheet(<<>>, <<>>),
     Sheet(OneSnapshot, ScrapeRows(OneSnapshot, OneBond, None)),
     Sheet(OneSnapshot, ScrapeRows(OneSnapshot, TwoBonds, None))}

InitRuns ==
    /\ \E sheet \in RunsSheets :
          headers = sheet.headers /\ rows = sheet.rows
    /\ now = T0 + 60
    /\ AtRest

Main == BeginJob(OverlapJobInputs, MaxRuns)

NextRuns == Main \/ ScraperStep \/ HourPasses
SpecRuns == InitRuns /\ [][NextRuns]_vars

\* whether column c of the sheet holds no header and no data
ColumnFree(sheet, c) ==
    /\ HeaderAt(sheet, c) = EmptyHeader
    /\ \A r \in 2..(Len(sheet.rows) + 1) : CellAt(sheet, r, c).k = "blank"

\* the writes of a run that make its new snapshot column and its
\* 'Hourly Change' column
ColumnWrites == {"header", "value", "diff_header", "diff", "sum"}

\* C14: in every run of run_scraping_job the new 'Data (timestamp)' header,
\* the scraped values and the 'Hourly Change' column are written only into
\* columns that held no header and no data before the run, whatever the
\* header row (blank header cells between non-blank ones included).
C14_ColumnsAppendOnly ==
    \A j \in EndedJobs :
        \A i \in 1..Len(scraper[j].writes) :
            scraper[j].writes[i].what \in ColumnWrites
                => ColumnFree(scraper[j].before, scraper[j].writes[i].col)

\* C15: after any sequence of runs of run_scraping_job, no two snapshot
\* ('Data (...)') headers of the sheet carry the same timestamp.
C15_SnapshotTimestampsUnique ==
    \A c, d \in {i \in DataColumnIndices(headers) : headers[i].stamp.has} :
        c # d => headers[c].stamp # headers[d].stamp

\* ------------------------------------------------------------------------
\* Claims on the counts of the calculators (SpecCalc)
\* ------------------------------------------------------------------------
\* the first computed interval of the hourly call in the state, and the
\* first pair of snapshots the month-to-date call compares
FirstComputed ==
    CHOOSE i \in ComputedIntervals(headers, StartArg, EndArg) :
        \A j \in ComputedIntervals(headers, StartArg, EndArg) : i <= j
FirstPair ==
    CHOOSE p \in SameDayPairs(MonthSnapshots(headers, StartArg, EndArg)) :
        \A q \in SameDayPairs(MonthSnapshots(headers, StartArg, EndArg)) :
            p[1].ts <= q[1].ts

\* the rows that parse in the first comparison of the call in the state
FirstParsedRows ==
    IF call.op = "calculate_hourly_changes"
    THEN RowCount(rows, PrevIdx(headers, StartArg, FirstComputed),
                  CurrIdx(headers, StartArg, FirstComputed), FALSE)
    ELSE RowCount(rows, FirstPair[1].idx, FirstPair[2].idx, FALSE)

\* at least one interval of the call in the state is computed
SomeComputed ==
    IF call.op = "calculate_hourly_changes"
    THEN ComputedIntervals(headers, StartArg, EndArg) # {}
    ELSE SameDayPairs(MonthSnapshots(headers, StartArg, EndArg)) # {}

\* C16: whenever at least one interval is computed and at least one row
\* parses in it, bonds_processed equals the number of rows that parsed in the
\* first computed interval, also when the first hourly interval of the range
\* (or the first day of the month range) is missing or skipped.
C16_BondsProcessedCountsRows ==
    (IsHourly \/ IsMtd) /\ ~Flagged /\ SomeComputed =>
        (FirstParsedRows >= 1 => ret.val.bonds_processed = FirstParsedRows)

\* the pairs of snapshots of a set that follow each other in time
ConsecutivePairs(cols) ==
    {p \in cols \X cols :
        /\ p[1].ts < p[2].ts
        /\ ~\E c \in cols : p[1].ts < c.ts /\ c.ts < p[2].ts}

\* C17: for calculate_mtd_volume_hourly over the N snapshot columns with a
\* timestamp in [month_start, end_time], net_change is the sum of the deltas
\* of all N-1 pairs of consecutive columns and hours_processed is N-1, also
\* when the columns span more than one calendar day.
C17_MtdSumsAllConsecutivePairs ==
    IsMtd /\ ~Flagged =>
        LET cols == MonthSnapshots(headers, StartArg, EndArg)
        IN  Cardinality(cols) >= 2 =>
              /\ ret.val.net_change
                    = PairSum(rows, ConsecutivePairs(cols), FALSE)
              /\ ret.val.hours_processed = Cardinality(cols) - 1

\* ------------------------------------------------------------------------
\* Claims on the bonds a run adds and on the driver (SpecScrape)
\* ------------------------------------------------------------------------
\* the bonds a run has added: those whose name it wrote
JobAdded(job) ==
    SubSeq(job.new_bonds, 1,
           Cardinality({i \in 1..Len(job.writes) :
                           job.writes[i].what = "name"}))

\* C18: after any run of run_scraping_job, a run in which reading the
\* existing bonds fails included, no bond has been added whose URL or
\* case-insensitive name already existed in the sheet, and no two bonds added
\* in the run share a URL or a case-insensitive name.
C18_NoDuplicateBondAdded ==
    \A j \in EndedJobs :
        LET existing == get_existing_bonds(scraper[j].before, TRUE)
            added == JobAdded(scraper[j])
        IN  /\ \A i \in 1..Len(added) :
                  /\ added[i].url \notin existing.urls
                  /\ Lower(added[i].name) \notin existing.names
            /\ \A i, k \in 1..Len(added) :
                  i < k =>
                     /\ added[i].url # added[k].url
                     /\ Lower(added[i].name) # Lower(added[k].name)

\* C19: every exit of run_scraping_job (normal completion, the early return
\* when the sheet has no URLs, an exception raised at a step) is preceded by
\* closing the browser driver: driver.quit has been called once.
C19_DriverClosedOnEveryExit ==
    /\ \A j \in EndedJobs :
          /\ scraper[j].exit \in {"done", "return", "raise"}
          /\ scraper[j].driver_quits = 1
    /\ \A j \in ActiveJobs :
          scraper[j].exit = "run" /\ scraper[j].driver_quits = 0

\* C19 witness: a run that ended with the exception of worksheet.update
\* (line 388, a nan or an infinity among diff_values) after it had written
\* cells, the driver closed once
C19_Witness ==
    \E j \in EndedJobs :
        /\ scraper[j].exit = "raise"
        /\ scraper[j].fault = "none"
        /\ ~Serializable(scraper[j].diff_values)
        /\ scraper[j].writes # <<>>
        /\ scraper[j].driver_quits = 1

\* ------------------------------------------------------------------------
\* SpecOverlap: the calculators while the scraper writes the sheet
\* ------------------------------------------------------------------------
\* the scraper is another process on the same sheet: each of its worksheet
\* calls is a request of its own, and the requests of a calculator
\* (get_all_values once, row_values(1) in every find_closest_data_column)
\* fall before, between and after them
MaxOverlapJobs == 1

\* the sheets of SpecOverlap: one snapshot, of 09:00 or of 10:00, or two
OverlapHeaderRows ==
    {BaseHeaders \o <<DataHeader(2025, 11, 1, 9, 0)>>,
     BaseHeaders \o <<DataHeader(2025, 11, 1, 10, 0)>>,
     BaseHeaders \o <<DataHeader(2025, 11, 1, 9, 0),
                      DataHeader(2025, 11, 1, 10, 0)>>}

\* the ranges of the hourly calls
OverlapRanges == {<<T0 - 60, T0 + 60>>, <<T0, T0 + 60>>, <<T0, T0 + 120>>}

\* the clock stands at 2025-11-01 10:30
InitOverlap ==
    /\ \E hs \in OverlapHeaderRows, bonds \in {OneBond, TwoBonds} :
          /\ headers = hs
          /\ rows = ScrapeRows(hs, bonds, None)
    /\ now = T0 + 30
    /\ AtRest

OverlapHourly ==
    /\ call = Idle
    /\ \E range \in OverlapRanges : StartHourly(range[1], range[2])
    /\ UNCHANGED <<headers, rows, now, posts, runs, scraper, ticks>>

OverlapMtd ==
    /\ call = Idle
    /\ StartMtd(ReplaceTime(now, 23, 59))
    /\ UNCHANGED <<headers, rows, now, posts, runs, scraper, ticks>>

\* a run of the scraper begins
StartScrapingJob == BeginJob(OverlapJobInputs, MaxOverlapJobs)

NextOverlap ==
    \/ OverlapHourly \/ OverlapMtd
    \/ FetchAllValues \/ FindPrevColumn \/ FindCurrColumn
    \/ MtdReadClock \/ MtdGetDataColumns \/ MtdFetchAllValues
    \/ StartScrapingJob \/ ScraperStep
    \/ HourPasses
SpecOverlap == InitOverlap /\ [][NextOverlap]_vars

\* the sum of the 'change' fields of the entries 1..n that are not missing
RECURSIVE ChangeSum(_, _)
ChangeSum(bd, n) ==
    IF n = 0 THEN Fin(0)
    ELSE FAdd(ChangeSum(bd, n - 1),
              IF bd[n].missing THEN Fin(0) ELSE Val(bd[n].change))

\* C20: in every result of calculate_hourly_changes that is not an error,
\* hourly_breakdown has exactly one entry per hourly interval of the range,
\* in chronological order (entry i is that of interval i), hours_processed
\* is the number of entries with missing = False, and net_change is the sum
\* of the 'change' fields of those entries.
C20_BreakdownCoversRange ==
    IsHourly /\ ~Flagged =>
        LET n == NumIntervals(StartArg, EndArg)
            bd == ret.val.hourly_breakdown
        IN  /\ Len(bd) = n
            /\ \A i \in 1..n :
                  bd[i].missing =>
                     /\ bd[i].prev_time = FormatHour(Target(StartArg, i - 1))
                     /\ bd[i].curr_time = FormatHour(Target(StartArg, i))
            /\ ret.val.hours_processed
                  = Cardinality({i \in 1..n : ~bd[i].missing})
            /\ ret.val.net_change = ChangeSum(bd, n)

\* ------------------------------------------------------------------------
\* Claim on the endpoints of an interval (SpecCalc)
\* ------------------------------------------------------------------------
\* the column find_closest_data_column gives for the k-th target time of the
\* hourly call in the state
FoundColumn(k) ==
    Val(find_closest_data_column(headers, Target(StartArg, k),
                                 WindowMinutes).val)

\* C21: every interval that calculate_hourly_changes computes (missing =
\* False) compares two different snapshot columns, the earlier one with a
\* strictly smaller timestamp than the later one; one snapshot column is
\* never both endpoints of an interval.
C21_IntervalEndpointsDiffer ==
    IsHourly /\ ~Flagged =>
        \A i \in 1..Len(ret.val.hourly_breakdown) :
            ~ret.val.hourly_breakdown[i].missing =>
                /\ FoundColumn(i - 1).idx # FoundColumn(i).idx
                /\ FoundColumn(i - 1).ts < FoundColumn(i).ts

\* ------------------------------------------------------------------------
\* Claim on the rows of the new bonds (SpecScrape)
\* ------------------------------------------------------------------------
\* whether the cell at row r of column c holds more than whitespace
HoldsText(sheet, r, c) ==
    r <= Len(ColStripped(sheet, c)) /\ ColStripped(sheet, c)[r]

\* the last row of the sheet (the header row included) that holds a name
\* or a URL; 0 when none does
LastNameOrUrlRow(sheet) ==
    MaxOf({0} \cup {r \in 1..(Len(sheet.rows) + 1) :
                       HoldsText(sheet, r, 1) \/ HoldsText(sheet, r, 2)})

\* the name and URL writes of a run, in order
BondWrites(job) ==
    SelectSeq(job.writes, LAMBDA w : w.what \in {"name", "url"})

\* C22: when run_scraping_job adds new bonds, it writes them to consecutive
\* rows strictly below the last row holding a name or URL, so that no name or
\* URL cell of an existing bond is overwritten, also when determining the
\* last data row fails.
C22_BondsWrittenBelowLastRow ==
    \A j \in EndedJobs :
        LET written == BondWrites(scraper[j])
        IN  \A k \in 1..Len(written) :
                /\ written[k].row
                      = LastNameOrUrlRow(scraper[j].before) + ((k + 1) \div 2)
                /\ written[k].col = (IF k % 2 = 1 THEN 1 ELSE 2)
                /\ ~HoldsText(scraper[j].before, written[k].row,
                              written[k].col)

====
